---- MODULE Spec2Model ----
(***************************************************************************)
(* A model of parts of go-mfp:                                             *)
(*                                                                         *)
(*   - transport.autoTLSListener (src/transport/autotls.go): one parent    *)
(*     listener multiplexed into a plain and an encrypted child listener;  *)
(*   - transport.Peeker (the Peeker source carried at the end of           *)
(*     src/argv/parser_test.go): a reader that records what it returns     *)
(*     until it is rewound or its prefix is replaced;                      *)
(*   - proxy.ServeHTTP (src/cmd/mfp-proxy/proxy/proxy.go) with log.Panic   *)
(*     (src/log/simple.go): the handlers of concurrent requests, their     *)
(*     request numbers, trace records and panic handling;                  *)
(*   - newProxy, kill and Shutdown of the same file;                       *)
(*   - one request through ServeHTTP, with its headers and its bodies.     *)
(*                                                                         *)
(* Each part has its own specifications (SpecATL, SpecATLFair, SpecPeeker, *)
(* SpecProxy, SpecShutdown, SpecExchange); the variables of the other      *)
(* parts stay at their initial values.                                     *)
(***************************************************************************)
EXTENDS Integers, Sequences, FiniteSets, TLC

(***************************************************************************)
(* Bounds of the model.                                                    *)
(***************************************************************************)
\* Goroutines that call Accept(), Close() or acceptWait().
NumTasks == 2
\* Connections the parent listener hands out before it only blocks.
MaxSock == 2

\* Longest body of the reader a Peeker wraps.
MaxBody == 3
\* Longest replacement passed to Peeker.Replace.
MaxRepl == 2
\* Largest len(b) of a Peeker.Read(b).
MaxRead == 2
\* Calls of Peeker.Rewind and Peeker.Replace on one Peeker.
MaxResets == 2

\* Requests the proxy receives.
MaxReq == 2
\* Proxies of the program, one for each mapping.
MaxProxy == 2
\* Bytes of the body of a response.
MaxRspBody == 2

Tasks == 1..NumTasks
Reqs == 1..MaxReq
Socks == 1..MaxSock
Proxies == 1..MaxProxy

\* First byte of a TLS handshake record (0x16).
TLSHandshake == 22
\* The first bytes a peer may send: a TLS handshake, or the 'G' of GET.
FirstBytes == {TLSHandshake, 71}
NoConn == 0

VARIABLES
    \* ---- autoTLSListener
    haveAccepter,   \* atl.haveAccepter
    closed,         \* atl.closed
    plain,          \* atl.plain.connections
    encrypted,      \* atl.encrypted.connections
    pending,        \* atl.pending
    parentClosed,   \* atl.parent has been closed
    nconn,          \* connections handed out by atl.parent so far
    raw,            \* raw[s]: connection s provides a working SyscallConn()
    peer,           \* peer[s]: what the peer of s has done so far
    first,          \* first[s]: the first byte the peer sent, <<>> if none
    aborts,         \* aborts[s]: how many times connAbort(s) ran
    delivered,      \* delivered[s]: the child whose Accept() returned s
    deliveries,     \* deliveries[s]: how many times s was returned
    pc,             \* pc[t]: where goroutine t is
    op,             \* op[t]: the call goroutine t is in
    c,              \* c[t]: acceptWait's local c (NoConn is nil)
    err,            \* err[t]: acceptWait's local err
    withTLS,        \* withTLS[t]: acceptWait's local withTLS
    retErr,         \* retErr[t]: error the last call of t returned, "none" inside a call
    atClose,        \* atClose[t]: where t was blocked when close() ran
    \* ---- Peeker
    body,           \* the bytes the wrapped io.ReadCloser (p.in) holds
    inPos,          \* how many of them have been read from p.in
    inClosed,       \* p.in has been closed
    out,            \* p.out: "tee" (io.TeeReader) or "multi" (io.MultiReader)
    mrLeft,         \* readers the MultiReader still has: 2 (buf, in), 1 (in), 0
    buf,            \* p.buf: its unread bytes
    pos,            \* p.pos
    got,            \* bytes Read returned since the last Rewind or Replace
    total,          \* number of bytes Read returned so far
    anchor,         \* the last Rewind or Replace, and the state it was called in
    atEOF,          \* the last Read returned io.EOF
    \* ---- proxy
    alive,          \* the proxy process runs
    proto,          \* p.m.proto
    in,             \* in[r]: request r, its Method and Content-Type
    hpc,            \* hpc[r]: where the handler of request r is
    status,         \* status[r]: the status written to the client, 0 if none
    caught,         \* caught[r]: the deferred function of ServeHTTP recovered a panic
    route,          \* route[r]: the case of ServeHTTP's switch taken for r
    sent,           \* sent[r]: p.clnt.Do was called for r
    tracing,        \* p.trace != nil
    rqnum,          \* p.rqnum
    rq,             \* rq[r]: doIPP's local rqnum
    trace,          \* the records passed to p.trace.Send, in the order of the calls
    outcome,        \* outcome[r]: how the handler of r ended, "none" before
    \* ---- newProxy, kill and Shutdown, for each proxy x
    cancelled,      \* cancelled[x]: p.ctx is done
    srvClosed,      \* srvClosed[x]: p.srv.Close() was called
    closeWait,      \* closeWait[x]: the counter of p.closeWait
    killPc,         \* killPc[x]: where the goroutine of p.kill is
    servePc,        \* servePc[x]: where the goroutine of p.srv.Serve is
    shutPc,         \* shutPc[x]: where the caller of p.Shutdown is
    \* ---- one request through ServeHTTP, with its headers and bodies
    xpc,            \* where the handler is
    xin,            \* the request: Method, ContentType, ContentLength, Header
    xtracing,       \* p.trace != nil
    xtrace,         \* the records passed to p.trace.Send: name and data
    xout,           \* the outgoing request: Header, ContentLength; ipplen
    sniffBuff,      \* doIPP's sniffBuff
    trailing,       \* the bytes of the request body after the IPP message
    rsp0,           \* the response as upstream sent it: Header, ContentLength
    rsp,            \* rsp: StatusCode, ContentType, Header, ContentLength
    w,              \* the http.ResponseWriter: Header, and what was written
                    \* (status, sent: the header at WriteHeader, body)
    xerr,           \* the error the handler rejected the request with
    upstream11,     \* the server p.clnt sends to takes chunked framing
    \* ---- decodeScaling
    scPc,           \* "new", then "decoded" when decodeScaling has returned
    root,           \* root.Children: the Name and Text of each
    sc,             \* the Scaling returned: the values of its two children
    scErr           \* the error returned, "nil" if none

atlVars == <<haveAccepter, closed, plain, encrypted, pending, parentClosed,
             nconn, raw, peer, first, aborts, delivered, deliveries,
             pc, op, c, err, withTLS, retErr, atClose>>

pkVars == <<body, inPos, inClosed, out, mrLeft, buf, pos, got, total,
            anchor, atEOF>>

pxVars == <<alive, proto, in, hpc, status, caught, route, sent, tracing,
            rqnum, rq, trace, outcome>>

sdVars == <<cancelled, srvClosed, closeWait, killPc, servePc, shutPc>>

exVars == <<xpc, xin, xtracing, xtrace, xout, sniffBuff, trailing, rsp0, rsp,
            w, xerr, upstream11>>

scVars == <<scPc, root, sc, scErr>>

vars == <<atlVars, pkVars, pxVars, sdVars, exVars, scVars>>

\* Byte values of bodies and replacements.
PkBytes == {1, 2}

\* The sequences over S of length at most n.
SeqsUpTo(S, n) == UNION {[1..k -> S] : k \in 0..n}

Min(a, b) == IF a < b THEN a ELSE b

IsPrefix(x, y) == Len(x) <= Len(y) /\ x = SubSeq(y, 1, Len(x))

\* What a Rewind or Replace finds: the call before it (op, and rec: the
\* Peeker was recording until then) and the number of bytes Read has
\* returned since.
noReset == [op |-> "new", rec |-> TRUE, read |-> 0]

lastReset == [op |-> anchor.op, rec |-> anchor.rec, read |-> Len(got)]

\* No Peeker: the values its variables have in the specifications of the
\* other parts.
noPeeker ==
    /\ body = <<>>
    /\ inPos = 0
    /\ inClosed = FALSE
    /\ out = "tee"
    /\ mrLeft = 2
    /\ buf = <<>>
    /\ pos = 0
    /\ got = <<>>
    /\ total = 0
    /\ anchor = [op |-> "new", data |-> <<>>, at |-> 0, rec |-> TRUE, n |-> 0,
                 prev |-> noReset]
    /\ atEOF = FALSE

(***************************************************************************)
(* autoTLSListenerQueue and connAbort.                                     *)
(***************************************************************************)
\* push adds a connection to the queue.
pushLost(q, s) == q

push(q, s) == Append(q, s)

\* pull returns the next connection of the queue (nil if it is empty) and
\* the queue without it.
pullNewest(q) ==
    IF Len(q) > 0
    THEN [c |-> q[Len(q)], q |-> SubSeq(q, 1, Len(q) - 1)]
    ELSE [c |-> NoConn, q |-> q]

pull(q) ==
    IF Len(q) > 0 THEN [c |-> Head(q), q |-> Tail(q)]
    ELSE [c |-> NoConn, q |-> q]

\* connAbort(s) forcibly closes connection s; ab counts the calls.
connAbort(ab, s) == [ab EXCEPT ![s] = @ + 1]

RECURSIVE abortAll(_, _)
abortAll(ab, q) ==
    IF q = <<>> THEN ab ELSE abortAll(connAbort(ab, Head(q)), Tail(q))

\* Lines 159-162 of close: connAbort on every connection of atl.pending.
abortPending(ab, S) ==
    [s \in Socks |-> IF s \in S THEN connAbort(ab, s)[s] ELSE ab[s]]

\* purge aborts all the queued connections; the queue is then empty.
purge(ab, q) == abortAll(ab, q)

\* The queue after purge: q.connections = q.connections[:0].
purgedKeep(q) == q

purged(q) == <<>>

\* sync.Cond.Broadcast: every goroutine in Wait() goes on to take the lock
\* again and to run the loop of accept() from its top.
BroadcastNone(p) == p

Broadcast(p) == [u \in Tasks |-> IF p[u] = "wait" THEN "lock110" ELSE p[u]]

(***************************************************************************)
(* detectTLS: the set of results <<withTLS, err>> the detection on         *)
(* connection s can end with now; the empty set while it blocks.           *)
(***************************************************************************)
detectTLSRawConn(s) ==
    IF aborts[s] > 0
    THEN \* The connection was closed by close(): either rawconn.Read
         \* fails before it calls the function (err stays nil, buf[0] is
         \* 0), or Recvfrom fails.
         {<<FALSE, "nil">>, <<FALSE, "detect">>}
    ELSE CASE peer[s] = "data"  -> {<<first[s][1] = TLSHandshake, "nil">>}
           [] peer[s] = "eof"   -> {<<FALSE, "nil">>}
           [] peer[s] = "reset" -> {<<FALSE, "detect">>}
           [] OTHER             -> {}

detectTLS(s) ==
    IF raw[s] THEN detectTLSRawConn(s) ELSE {<<FALSE, "nil">>}

(***************************************************************************)
(* accept: the body of its loop, run with the lock held.  ha is the value  *)
(* of haveAccepter and pcb the goroutines' positions when the body starts, *)
(* side the child ("plain" or "encrypted") whose Accept() runs it.         *)
(***************************************************************************)
\* Line 138: atl.haveAccepter = false.
accepterDoneKeeps == TRUE

accepterDone == FALSE

\* Line 132: atl.haveAccepter = true.
happyAccepterUnset == FALSE

happyAccepter == TRUE

acceptLoop(t, side, ha, pcb) ==
    LET e == side = "encrypted"
        r == pull(IF e THEN encrypted ELSE plain)
    IN  /\ op' = [op EXCEPT ![t] = side]
        /\ IF r.c # NoConn
           THEN \* return c, nil
                /\ plain' = IF e THEN plain ELSE r.q
                /\ encrypted' = IF e THEN r.q ELSE encrypted
                /\ retErr' = [retErr EXCEPT ![t] = "nil"]
                /\ delivered' = [delivered EXCEPT ![r.c] = side]
                /\ deliveries' = [deliveries EXCEPT ![r.c] = @ + 1]
                /\ haveAccepter' = ha
                /\ pc' = [pcb EXCEPT ![t] = "idle"]
           ELSE IF closed
           THEN \* return nil, errAutoTLSListenerClosed
                /\ retErr' = [retErr EXCEPT ![t] = "closed"]
                /\ haveAccepter' = ha
                /\ pc' = [pcb EXCEPT ![t] = "idle"]
                /\ UNCHANGED <<plain, encrypted, delivered, deliveries>>
           ELSE IF ha
           THEN \* atl.wait.Wait()
                /\ haveAccepter' = ha
                /\ pc' = [pcb EXCEPT ![t] = "wait"]
                /\ retErr' = [retErr EXCEPT ![t] = "none"]
                /\ UNCHANGED <<plain, encrypted, delivered, deliveries>>
           ELSE \* We are that happy accepter: unlock and call acceptWait.
                /\ haveAccepter' = happyAccepter
                /\ pc' = [pcb EXCEPT ![t] = "pAccept"]
                /\ retErr' = [retErr EXCEPT ![t] = "none"]
                /\ UNCHANGED <<plain, encrypted, delivered, deliveries>>

(***************************************************************************)
(* Calls: a goroutine that is in no call starts one.                       *)
(***************************************************************************)
\* autoTLSListenerChild.Accept: accept(l.encrypted), up to the first
\* return, Wait() or Unlock().
Accept(t, e) ==
    /\ UNCHANGED <<pkVars, pxVars, sdVars, scVars, exVars>>
    /\ pc[t] = "idle"
    /\ acceptLoop(t, IF e THEN "encrypted" ELSE "plain", haveAccepter, pc)
    /\ atClose' = [atClose EXCEPT ![t] = "no"]
    /\ UNCHANGED <<closed, pending, parentClosed, nconn, raw, peer, first,
                   aborts, c, err, withTLS>>

\* accept takes the lock again when Wait() returns.
accept(t) ==
    /\ UNCHANGED <<pkVars, pxVars, sdVars, scVars, exVars>>
    /\ pc[t] = "lock110"
    /\ acceptLoop(t, op[t], haveAccepter, pc)
    /\ UNCHANGED <<closed, pending, parentClosed, nconn, raw, peer, first,
                   aborts, c, err, withTLS, atClose>>

\* accept takes the lock again after acceptWait returned (lines 136-145).
acceptWaited(t) ==
    /\ UNCHANGED <<pkVars, pxVars, sdVars, scVars, exVars>>
    /\ pc[t] = "lock136"
    /\ IF err[t] # "nil"
       THEN \* return nil, err
            /\ haveAccepter' = accepterDone
            /\ pc' = [Broadcast(pc) EXCEPT ![t] = "idle"]
            /\ retErr' = [retErr EXCEPT ![t] = err[t]]
            /\ UNCHANGED <<plain, encrypted, delivered, deliveries, op>>
       ELSE acceptLoop(t, op[t], accepterDone, Broadcast(pc))
    /\ err' = [err EXCEPT ![t] = "nil"]
    /\ UNCHANGED <<closed, pending, parentClosed, nconn, raw, peer, first,
                   aborts, c, withTLS, atClose>>

\* A direct call of acceptWait (the testing interface).
testAcceptWait(t) ==
    /\ UNCHANGED <<pkVars, pxVars, sdVars, scVars, exVars>>
    /\ pc[t] = "idle"
    /\ pc' = [pc EXCEPT ![t] = "pAccept"]
    /\ op' = [op EXCEPT ![t] = "acceptWait"]
    /\ retErr' = [retErr EXCEPT ![t] = "none"]
    /\ atClose' = [atClose EXCEPT ![t] = "no"]
    /\ UNCHANGED <<haveAccepter, closed, plain, encrypted, pending,
                   parentClosed, nconn, raw, peer, first, aborts, delivered,
                   deliveries, c, err, withTLS>>

(***************************************************************************)
(* acceptWait, step by step.  The steps between Lock() and Unlock() are    *)
(* one action each: nothing blocks while the lock is held.  A connAbort    *)
(* that follows an Unlock() is part of the same action: nothing but the    *)
(* detection on the same connection depends on when it runs.               *)
(***************************************************************************)
\* acceptWait returns e to its caller: to accept(), which takes the lock
\* again, or to the test that called it directly.  Its locals are gone.
acceptWaitReturn(t, e) ==
    /\ c' = [c EXCEPT ![t] = NoConn]
    /\ withTLS' = [withTLS EXCEPT ![t] = FALSE]
    /\ IF op[t] = "acceptWait"
       THEN /\ pc' = [pc EXCEPT ![t] = "idle"]
            /\ retErr' = [retErr EXCEPT ![t] = e]
            /\ err' = [err EXCEPT ![t] = "nil"]
       ELSE /\ pc' = [pc EXCEPT ![t] = "lock136"]
            /\ err' = [err EXCEPT ![t] = e]
            /\ UNCHANGED retErr

\* c, err := atl.parent.Accept(): a new connection.
parentAccept(t) ==
    /\ UNCHANGED <<pkVars, pxVars, sdVars, scVars, exVars>>
    /\ pc[t] = "pAccept"
    /\ ~parentClosed
    /\ nconn < MaxSock
    /\ \E r \in BOOLEAN :
          raw' = [raw EXCEPT ![nconn + 1] = r]
    /\ nconn' = nconn + 1
    /\ c' = [c EXCEPT ![t] = nconn + 1]
    /\ pc' = [pc EXCEPT ![t] = "lock188"]
    /\ UNCHANGED <<haveAccepter, closed, plain, encrypted, pending,
                   parentClosed, peer, first, aborts, delivered, deliveries,
                   op, err, withTLS, retErr, atClose>>

\* c, err := atl.parent.Accept(): the parent listener is closed.
parentAcceptClosed(t) ==
    /\ UNCHANGED <<pkVars, pxVars, sdVars, scVars, exVars>>
    /\ pc[t] = "pAccept"
    /\ parentClosed
    /\ err' = [err EXCEPT ![t] = "parent"]
    /\ pc' = [pc EXCEPT ![t] = "lock210"]
    /\ UNCHANGED <<haveAccepter, closed, plain, encrypted, pending,
                   parentClosed, nconn, raw, peer, first, aborts, delivered,
                   deliveries, op, c, withTLS, retErr, atClose>>

\* c, err := atl.parent.Accept(): any other error of the parent listener.
parentAcceptError(t) ==
    /\ UNCHANGED <<pkVars, pxVars, sdVars, scVars, exVars>>
    /\ pc[t] = "pAccept"
    /\ ~parentClosed
    /\ err' = [err EXCEPT ![t] = "parent"]
    /\ pc' = [pc EXCEPT ![t] = "lock210"]
    /\ UNCHANGED <<haveAccepter, closed, plain, encrypted, pending,
                   parentClosed, nconn, raw, peer, first, aborts, delivered,
                   deliveries, op, c, withTLS, retErr, atClose>>

\* Lines 188-200: add the connection to atl.pending; if the listener is
\* already closed, drop the connection and return.
acceptWaitPending(t) ==
    /\ UNCHANGED <<pkVars, pxVars, sdVars, scVars, exVars>>
    /\ pc[t] = "lock188"
    /\ IF ~closed
       THEN /\ pending' = pending \cup {c[t]}
            /\ pc' = [pc EXCEPT ![t] = "detect"]
            /\ UNCHANGED <<aborts, c, err, withTLS, retErr>>
       ELSE /\ aborts' = connAbort(aborts, c[t])
            /\ acceptWaitReturn(t, "closed")
            /\ UNCHANGED pending
    /\ UNCHANGED <<haveAccepter, closed, plain, encrypted, parentClosed,
                   nconn, raw, peer, first, delivered, deliveries, op,
                   atClose>>

\* Line 203: withTLS, err = atl.detectTLS(c)
acceptWaitDetect(t) ==
    /\ UNCHANGED <<pkVars, pxVars, sdVars, scVars, exVars>>
    /\ pc[t] = "detect"
    /\ \E r \in detectTLS(c[t]) :
          /\ withTLS' = [withTLS EXCEPT ![t] = r[1]]
          /\ err' = [err EXCEPT ![t] = r[2]]
    /\ pc' = [pc EXCEPT ![t] = "lock210"]
    /\ UNCHANGED <<haveAccepter, closed, plain, encrypted, pending,
                   parentClosed, nconn, raw, peer, first, aborts, delivered,
                   deliveries, op, c, retErr, atClose>>

\* Line 212: delete(atl.pending, c).
deleteKeeps(S, s) == S

delete(S, s) == S \ {s}

\* The switch of lines 213-221 without its case atl.closed.
acceptWaitErrIgnoresClosed(t) == err[t]

\* The error acceptWait has after the switch of lines 213-221.
acceptWaitErr(t) == IF closed THEN "closed" ELSE err[t]

\* Lines 210-230: delete the connection from pending and push it into the
\* appropriate queue; drop it in a case of an error; return err.
acceptWaitPush(t) ==
    /\ UNCHANGED <<pkVars, pxVars, sdVars, scVars, exVars>>
    /\ pc[t] = "lock210"
    /\ pending' = delete(pending, c[t])
    /\ encrypted' = IF acceptWaitErr(t) = "nil" /\ withTLS[t]
                    THEN push(encrypted, c[t]) ELSE encrypted
    /\ plain' = IF acceptWaitErr(t) = "nil" /\ ~withTLS[t]
                THEN push(plain, c[t]) ELSE plain
    /\ aborts' = IF c[t] # NoConn /\ acceptWaitErr(t) # "nil"
                 THEN connAbort(aborts, c[t]) ELSE aborts
    /\ acceptWaitReturn(t, acceptWaitErr(t))
    /\ UNCHANGED <<haveAccepter, closed, parentClosed, nconn, raw, peer,
                   first, delivered, deliveries, op, atClose>>

(***************************************************************************)
(* close, with the lock held from its first line to its last.              *)
(***************************************************************************)
\* Where a goroutine inside Accept() is blocked, "no" if it is not.
blockedAt(u) ==
    IF op[u] \in {"plain", "encrypted"} /\ pc[u] \in {"pAccept", "detect", "wait"}
    THEN pc[u] ELSE "no"

\* autoTLSListenerChild.Close, called by a goroutine that is in no other
\* call of the listener (the owner of the HTTP server, a test).
close ==
    /\ UNCHANGED <<pkVars, pxVars, sdVars, scVars, exVars>>
    /\ parentClosed' = TRUE
    /\ closed' = TRUE
    /\ aborts' = purge(purge(abortPending(aborts, pending), plain),
                       encrypted)
    /\ pending' = {}
    /\ plain' = purged(plain)
    /\ encrypted' = purged(encrypted)
    /\ pc' = Broadcast(pc)
    /\ atClose' = [u \in Tasks |->
                     IF blockedAt(u) # "no" THEN blockedAt(u) ELSE atClose[u]]
    /\ UNCHANGED <<haveAccepter, nconn, raw, peer, first, delivered,
                   deliveries, op, c, err, withTLS, retErr>>

(***************************************************************************)
(* The peers: what the other end of a connection under detection does.     *)
(***************************************************************************)
underDetection(s) ==
    \E t \in Tasks : c[t] = s /\ pc[t] \in {"lock188", "detect"}

peerSend(s, b) ==
    /\ UNCHANGED <<pkVars, pxVars, sdVars, scVars, exVars>>
    /\ underDetection(s)
    /\ peer[s] = "silent"
    /\ peer' = [peer EXCEPT ![s] = "data"]
    /\ first' = [first EXCEPT ![s] = <<b>>]
    /\ UNCHANGED <<haveAccepter, closed, plain, encrypted, pending,
                   parentClosed, nconn, raw, aborts, delivered, deliveries,
                   pc, op, c, err, withTLS, retErr, atClose>>

\* The peer drops the connection ("reset") or shuts it down ("eof")
\* without sending anything.  Only a detection that reads the connection
\* can tell the two apart; on a connection that is not read either end
\* is recorded as "reset".
peerEnd(s, how) ==
    /\ UNCHANGED <<pkVars, pxVars, sdVars, scVars, exVars>>
    /\ underDetection(s)
    /\ (raw[s] \/ how = "reset")
    /\ peer[s] = "silent"
    /\ peer' = [peer EXCEPT ![s] = how]
    /\ UNCHANGED <<haveAccepter, closed, plain, encrypted, pending,
                   parentClosed, nconn, raw, first, aborts, delivered,
                   deliveries, pc, op, c, err, withTLS, retErr, atClose>>

(***************************************************************************)
(* The listener after newAutoTLSListener, and its next-state relation.     *)
(***************************************************************************)
newAutoTLSListener ==
    /\ haveAccepter = FALSE
    /\ closed = FALSE
    /\ plain = <<>>
    /\ encrypted = <<>>
    /\ pending = {}
    /\ parentClosed = FALSE
    /\ nconn = 0
    /\ raw = [s \in Socks |-> TRUE]
    /\ peer = [s \in Socks |-> "silent"]
    /\ first = [s \in Socks |-> <<>>]
    /\ aborts = [s \in Socks |-> 0]
    /\ delivered = [s \in Socks |-> "none"]
    /\ deliveries = [s \in Socks |-> 0]
    /\ pc = [t \in Tasks |-> "idle"]
    /\ op = [t \in Tasks |-> "none"]
    /\ c = [t \in Tasks |-> NoConn]
    /\ err = [t \in Tasks |-> "nil"]
    /\ withTLS = [t \in Tasks |-> FALSE]
    /\ retErr = [t \in Tasks |-> "none"]
    /\ atClose = [t \in Tasks |-> "no"]

\* What a goroutine inside a call does next.
taskProgress(t) ==
    \/ accept(t)
    \/ acceptWaited(t)
    \/ parentAcceptClosed(t)
    \/ acceptWaitPending(t)
    \/ acceptWaitDetect(t)
    \/ acceptWaitPush(t)

\* A goroutine that uses the children as the HTTP servers do.
serveStep(t) ==
    \/ \E e \in BOOLEAN : Accept(t, e)
    \/ parentAccept(t)
    \/ parentAcceptError(t)
    \/ taskProgress(t)

peerStep ==
    \E s \in Socks :
        \/ \E b \in FirstBytes : peerSend(s, b)
        \/ \E how \in {"reset", "eof"} : peerEnd(s, how)

\* No proxy: the values its variables have in the specifications of the
\* other parts.
noProxy ==
    /\ alive = TRUE
    /\ proto = "protoIPP"
    /\ in = [r \in Reqs |-> [Method |-> "GET", ContentType |-> ""]]
    /\ hpc = [r \in Reqs |-> "none"]
    /\ status = [r \in Reqs |-> 0]
    /\ caught = [r \in Reqs |-> FALSE]
    /\ route = [r \in Reqs |-> "none"]
    /\ sent = [r \in Reqs |-> FALSE]
    /\ tracing = FALSE
    /\ rqnum = 0
    /\ rq = [r \in Reqs |-> 0]
    /\ trace = <<>>
    /\ outcome = [r \in Reqs |-> "none"]

\* An http.Header without fields.
NoHeader == [k \in {} |-> <<>>]

\* No request is followed: the values the variables of the single
\* exchange have in the specifications of the other parts.
noExchange ==
    /\ xpc = "none"
    /\ xin = [Method |-> "GET", ContentLength |-> 0, Header |-> NoHeader]
    /\ xtracing = FALSE
    /\ upstream11 = TRUE
    /\ xtrace = <<>>
    /\ xout = [Header |-> NoHeader, ContentLength |-> 0, ipplen |-> 0]
    /\ sniffBuff = <<>>
    /\ trailing = <<>>
    /\ rsp0 = [StatusCode |-> 0, ContentLength |-> 0, Header |-> NoHeader,
               Body |-> <<>>]
    /\ rsp = [StatusCode |-> 0, Header |-> NoHeader, ContentLength |-> 0]
    /\ w = [Header |-> NoHeader, status |-> 0, sent |-> NoHeader,
            body |-> <<>>, calls |-> 0]
    /\ xerr = ""

\* No proxy is shut down: the values the variables of newProxy's
\* goroutines have in the specifications of the other parts.
noShutdown ==
    /\ cancelled = [x \in Proxies |-> FALSE]
    /\ srvClosed = [x \in Proxies |-> FALSE]
    /\ closeWait = [x \in Proxies |-> 0]
    /\ killPc = [x \in Proxies |-> "none"]
    /\ servePc = [x \in Proxies |-> "none"]
    /\ shutPc = [x \in Proxies |-> "none"]

\* No element is decoded: the values the variables of decodeScaling have
\* in the specifications of the other parts.
noScaling ==
    /\ scPc = "none"
    /\ root = <<>>
    /\ sc = [ScalingWidth |-> 0, ScalingHeight |-> 0]
    /\ scErr = "nil"

InitATL ==
    newAutoTLSListener /\ noPeeker /\ noProxy /\ noShutdown /\ noExchange /\ noScaling

NextATL ==
    \/ \E t \in Tasks : serveStep(t) \/ testAcceptWait(t)
    \/ close
    \/ peerStep

SpecATL == InitATL /\ [][NextATL]_vars

\* The listener with no caller of the testing interface.
NextServe ==
    \/ \E t \in Tasks : serveStep(t)
    \/ close
    \/ peerStep

SpecServe == InitATL /\ [][NextServe]_vars

\* The scheduler runs every goroutine that can take a step: the lock is
\* granted, Accept() on a closed listener and a detection that has its
\* answer return.  Nothing makes a peer send or a caller call.
SpecATLFair ==
    /\ InitATL
    /\ [][NextServe]_vars
    /\ \A t \in Tasks : WF_vars(taskProgress(t))

\* Two servers, one per child: the goroutine of srvr1.Serve(p) calls
\* Accept() on the plain child, that of srvr2.ServeTLS(e) on the
\* encrypted one.
serverOf(t) == t % 2 = 0

\* A server that calls Accept() again whenever Accept() has returned, on
\* a listener that nobody closes.
burstStep(t) ==
    \/ Accept(t, serverOf(t))
    \/ parentAccept(t)
    \/ parentAcceptError(t)
    \/ accept(t)
    \/ acceptWaited(t)
    \/ acceptWaitPending(t)
    \/ acceptWaitDetect(t)
    \/ acceptWaitPush(t)

NextBurst ==
    \/ \E t \in Tasks : burstStep(t)
    \/ peerStep

\* Both servers keep calling Accept() and the scheduler runs every
\* goroutine that can take a step.  Nothing makes a peer send.
SpecBurst ==
    /\ InitATL
    /\ [][NextBurst]_vars
    /\ \A t \in Tasks :
          WF_vars(Accept(t, serverOf(t))) /\ WF_vars(taskProgress(t))

(***************************************************************************)
(* Peeker.                                                                 *)
(*                                                                         *)
(* p.in is a reader over body; p.buf is a bytes.Buffer, of which only the  *)
(* unread bytes matter; p.out is the io.TeeReader(in, &p.buf) of NewPeeker *)
(* or the io.MultiReader(&p.buf, p.in) of Rewind and Replace.  A read      *)
(* result is a record [n, e]: the number of bytes and the error ("nil",    *)
(* "EOF", or "closed" for a read of a closed p.in).                        *)
(***************************************************************************)
\* p.in.Read(b) with len(b) = len: the results it may give.  A reader
\* may return fewer bytes than asked for, and may return the last bytes
\* together with io.EOF or io.EOF on the next call.
inRead(len) ==
    IF inClosed THEN {[n |-> 0, e |-> "closed"]}
    ELSE IF len = 0 THEN {[n |-> 0, e |-> "nil"]}
    ELSE IF inPos = Len(body) THEN {[n |-> 0, e |-> "EOF"]}
    ELSE {[n |-> k, e |-> "nil"] : k \in 1..Min(len, Len(body) - inPos)}
         \cup (IF len >= Len(body) - inPos
               THEN {[n |-> Len(body) - inPos, e |-> "EOF"]} ELSE {})

\* The bytes a read of n bytes from p.in returns.
inBytes(n) == SubSeq(body, inPos + 1, inPos + n)

\* bytes.Buffer.Read(b) with len(b) = len on a buffer with unread bytes b0.
bufRead(b0, len) ==
    IF b0 = <<>>
    THEN IF len = 0 THEN [n |-> 0, e |-> "nil"] ELSE [n |-> 0, e |-> "EOF"]
    ELSE [n |-> Min(len, Len(b0)), e |-> "nil"]

\* bytes.Buffer.Read: the unread bytes left after n bytes were read.
bufNextKeep(b0, n) == b0

bufNext(b0, n) == SubSeq(b0, n + 1, Len(b0))

\* io.MultiReader(&p.buf, p.in): p.buf after data was read from p.in.
\* Nothing is written to p.buf.
multiReaderTee(b0, data) == b0 \o data

multiReader(b0, data) == b0

\* io.TeeReader: what was read from p.in is written to p.buf.
teeReaderShort(b0, data) ==
    IF data = <<>> THEN b0 ELSE b0 \o SubSeq(data, 1, Len(data) - 1)

teeReaderLost(b0, data) == b0

teeReader(b0, data) == b0 \o data

\* Peeker.Read: p.pos.Add(int64(n)) if n > 0.
posStore(p, n) == IF n > 0 THEN n ELSE p

posAdd(p, n) == IF n > 0 THEN p + n ELSE p

\* Peeker.Replace: p.buf.Reset(), then p.buf.Write(data).
replaceNoReset(b0, data) == b0 \o data

replaceBuf(b0, data) == data

\* Peeker.Read returns r and the bytes data; from p.in it took k bytes.
readDone(r, data, k) ==
    /\ inPos' = inPos + k
    /\ pos' = posAdd(pos, r.n)
    /\ got' = got \o data
    /\ total' = total + r.n
    /\ atEOF' = (r.e = "EOF")
    /\ UNCHANGED <<body, inClosed, out, anchor>>

\* Read through the io.TeeReader.
readTee(len) ==
    /\ out = "tee"
    /\ \E r \in inRead(len) :
          /\ buf' = teeReader(buf, inBytes(r.n))
          /\ readDone(r, inBytes(r.n), r.n)
    /\ UNCHANGED mrLeft

\* Read through the io.MultiReader while it still has p.buf: from p.buf,
\* and, when p.buf has just reported io.EOF, from p.in in the same call.
readMultiBuf(len) ==
    /\ out = "multi"
    /\ mrLeft = 2
    /\ LET rb == bufRead(buf, len)
       IN  IF rb.n = 0 /\ rb.e = "EOF"
           THEN \E r \in inRead(len) :
                   /\ mrLeft' = IF r.e = "EOF" THEN 0 ELSE 1
                   /\ buf' = multiReader(<<>>, inBytes(r.n))
                   /\ readDone(r, inBytes(r.n), r.n)
           ELSE /\ mrLeft' = 2
                /\ buf' = bufNext(buf, rb.n)
                /\ readDone(rb, SubSeq(buf, 1, rb.n), 0)

\* Read through the io.MultiReader once it has dropped p.buf.
readMultiIn(len) ==
    /\ out = "multi"
    /\ mrLeft < 2
    /\ IF mrLeft = 0
       THEN /\ readDone([n |-> 0, e |-> "EOF"], <<>>, 0)
            /\ UNCHANGED <<mrLeft, buf>>
       ELSE \E r \in inRead(len) :
               /\ mrLeft' = IF r.e = "EOF" THEN 0 ELSE 1
               /\ buf' = multiReader(buf, inBytes(r.n))
               /\ readDone(r, inBytes(r.n), r.n)

\* Peeker.Read
Read(len) ==
    /\ UNCHANGED <<atlVars, pxVars, sdVars, scVars, exVars>>
    /\ \/ readTee(len)
       \/ readMultiBuf(len)
       \/ readMultiIn(len)

\* Peeker.Close
PeekerClose ==
    /\ UNCHANGED <<atlVars, pxVars, sdVars, scVars, exVars>>
    /\ ~inClosed
    /\ inClosed' = TRUE
    /\ UNCHANGED <<body, inPos, out, mrLeft, buf, pos, got, total, anchor,
                   atEOF>>

\* Peeker.Rewind
peekerRewind ==
    /\ out' = "multi"
    /\ mrLeft' = 2
    /\ got' = <<>>
    /\ atEOF' = FALSE
    /\ anchor' = [op |-> "Rewind", data |-> <<>>, at |-> pos,
                  rec |-> out = "tee", n |-> anchor.n + 1,
                  prev |-> lastReset]
    /\ UNCHANGED <<body, inPos, inClosed, buf, pos, total>>

Rewind ==
    /\ UNCHANGED <<atlVars, pxVars, sdVars, scVars, exVars>>
    /\ anchor.n < MaxResets
    /\ peekerRewind

\* Peeker.Replace
peekerReplace(data) ==
    /\ buf' = replaceBuf(buf, data)
    /\ out' = "multi"
    /\ mrLeft' = 2
    /\ got' = <<>>
    /\ atEOF' = FALSE
    /\ anchor' = [op |-> "Replace", data |-> data, at |-> pos,
                  rec |-> out = "tee", n |-> anchor.n + 1,
                  prev |-> lastReset]
    /\ UNCHANGED <<body, inPos, inClosed, pos, total>>

Replace(data) ==
    /\ UNCHANGED <<atlVars, pxVars, sdVars, scVars, exVars>>
    /\ anchor.n < MaxResets
    /\ peekerReplace(data)

\* NewPeeker(in), for every body the reader in may hold.
NewPeeker ==
    /\ body \in SeqsUpTo(PkBytes, MaxBody)
    /\ inPos = 0
    /\ inClosed = FALSE
    /\ out = "tee"
    /\ mrLeft = 2
    /\ buf = <<>>
    /\ pos = 0
    /\ got = <<>>
    /\ total = 0
    /\ anchor = [op |-> "new", data |-> <<>>, at |-> 0, rec |-> TRUE, n |-> 0,
                 prev |-> noReset]
    /\ atEOF = FALSE

NextPeeker ==
    \/ \E len \in 0..MaxRead : Read(len)
    \/ PeekerClose
    \/ Rewind
    \/ \E data \in SeqsUpTo(PkBytes, MaxRepl) : Replace(data)

InitPeeker ==
    newAutoTLSListener /\ NewPeeker /\ noProxy /\ noShutdown /\ noExchange /\ noScaling

SpecPeeker == InitPeeker /\ [][NextPeeker]_vars

(***************************************************************************)
(* proxy.ServeHTTP and log.Panic.                                          *)
(*                                                                         *)
(* The HTTP server runs ServeHTTP for every request in a goroutine of its  *)
(* own.  hpc[r] is "none" before request r arrives, then the function the  *)
(* handler is in, then "done" when ServeHTTP has returned, or "exit" when  *)
(* the handler ended the process.                                          *)
(***************************************************************************)
StatusBadRequest == 400
StatusBadGateway == 502

Protos == {"protoIPP", "protoHTTP"}
Methods == {"GET", "POST", "PUT"}
ContentTypes == {"application/ipp", "Application/IPP", "text/plain"}
\* Statuses an upstream server answers with.
UpstreamStatus == {200, 404}

\* strings.ToLower, on the content types above.
ToLowerNone(ct) == ct

ToLower(ct) == IF ct = "Application/IPP" THEN "application/ipp" ELSE ct

\* The handler of r is inside ServeHTTP or a function it called.
inHandler(r) ==
    hpc[r] \in {"ServeHTTP", "doHTTP", "httpRsp", "doIPP", "doIPPreq", "ippDo",
               "ippRsp"}

\* log.Fatal: "It calls os.Exit(1) and never returns."  The value is
\* whether the process runs after the call.
FatalReturns(running) == running

Fatal(running) == FALSE

\* log.Panic writes the panic message and the call stack to the log with
\* Fatal.
Panic(running) == Fatal(running)

\* httpReject writes the status and the error text; its caller returns.
httpReject(r, st) ==
    /\ status' = [status EXCEPT ![r] = st]
    /\ hpc' = [hpc EXCEPT ![r] = "done"]

\* w.WriteHeader(rsp.StatusCode) and the copy of the body; the handler
\* returns.
forward(r, st) ==
    /\ status' = [status EXCEPT ![r] = st]
    /\ hpc' = [hpc EXCEPT ![r] = "done"]

\* p.rqnum.Add(1) on an atomic.Uint32: the new value.  The counter wraps
\* to 0 after 2^32 - 1, which no run of at most MaxReq requests reaches.
rqnumKeep(n) == n

rqnumAdd(n) == n + 1

\* A record of the trace: the request number its name starts with and
\* the kind of its name (<OpName>.ipp, data.<magic>, <StatusName>.ipp).
\* req is the request the record was made for.
traceRecordData(r, kind) == [num |-> rq[r], kind |-> "data", req |-> r]

traceRecord(r, kind) == [num |-> rq[r], kind |-> kind, req |-> r]

\* The handler of r ends, and how.
ended(r, how) == outcome' = [outcome EXCEPT ![r] = how]

\* A request arrives and the server calls ServeHTTP for it.
request(r, m, ct) ==
    /\ UNCHANGED <<atlVars, pkVars, sdVars, scVars, exVars>>
    /\ alive
    /\ hpc[r] = "none"
    /\ in' = [in EXCEPT ![r] = [Method |-> m, ContentType |-> ct]]
    /\ hpc' = [hpc EXCEPT ![r] = "ServeHTTP"]
    /\ UNCHANGED <<alive, proto, status, caught, route, sent, tracing,
                   rqnum, rq, trace, outcome>>

\* ServeHTTP, lines 113-130.
ServeHTTP(r) ==
    /\ UNCHANGED <<atlVars, pkVars, sdVars, scVars, exVars>>
    /\ alive
    /\ hpc[r] = "ServeHTTP"
    /\ IF /\ proto = "protoIPP"
          /\ in[r].Method = "POST"
          /\ ToLower(in[r].ContentType) = "application/ipp"
       THEN /\ hpc' = [hpc EXCEPT ![r] = "doIPP"]
            /\ route' = [route EXCEPT ![r] = "doIPP"]
            /\ UNCHANGED <<status, outcome>>
       ELSE IF in[r].Method = "GET"
       THEN /\ hpc' = [hpc EXCEPT ![r] = "doHTTP"]
            /\ route' = [route EXCEPT ![r] = "doHTTP"]
            /\ UNCHANGED <<status, outcome>>
       ELSE /\ httpReject(r, StatusBadRequest)
            /\ route' = [route EXCEPT ![r] = "httpReject"]
            /\ ended(r, "bad request")
    /\ UNCHANGED <<alive, proto, in, caught, sent, tracing, rqnum, rq,
                   trace>>

\* doHTTP up to p.clnt.Do(out), lines 169-185.
doHTTP(r) ==
    /\ UNCHANGED <<atlVars, pkVars, sdVars, scVars, exVars>>
    /\ alive
    /\ hpc[r] = "doHTTP"
    /\ sent' = [sent EXCEPT ![r] = TRUE]
    /\ \E ok \in BOOLEAN :
          IF ok THEN /\ hpc' = [hpc EXCEPT ![r] = "httpRsp"]
                     /\ UNCHANGED <<status, outcome>>
          ELSE /\ httpReject(r, StatusBadGateway)
               /\ ended(r, "upstream")
    /\ UNCHANGED <<alive, proto, in, caught, route, tracing, rqnum, rq,
                   trace>>

\* doHTTP from the response on, lines 187-203.
httpRsp(r) ==
    /\ UNCHANGED <<atlVars, pkVars, sdVars, scVars, exVars>>
    /\ alive
    /\ hpc[r] = "httpRsp"
    /\ \E st \in UpstreamStatus : forward(r, st)
    /\ ended(r, "forwarded")
    /\ UNCHANGED <<alive, proto, in, caught, route, sent, tracing, rqnum,
                   rq, trace>>

\* doIPP, lines 207-215: p.rqnum.Add(1), then msgxlat, which may fail.
doIPP(r) ==
    /\ UNCHANGED <<atlVars, pkVars, sdVars, scVars, exVars>>
    /\ alive
    /\ hpc[r] = "doIPP"
    /\ rqnum' = rqnumAdd(rqnum)
    /\ rq' = [rq EXCEPT ![r] = rqnumAdd(rqnum)]
    /\ \E ok \in BOOLEAN :
          IF ok THEN /\ hpc' = [hpc EXCEPT ![r] = "doIPPreq"]
                     /\ UNCHANGED <<status, outcome>>
          ELSE /\ httpReject(r, StatusBadGateway)
               /\ ended(r, "msgxlat")
    /\ UNCHANGED <<alive, proto, in, caught, route, sent, tracing, trace>>

\* doIPP, lines 217-223, and doIPPreq: the request message is decoded,
\* which may fail; it is sent to the trace and re-encoded.
doIPPreq(r) ==
    /\ UNCHANGED <<atlVars, pkVars, sdVars, scVars, exVars>>
    /\ alive
    /\ hpc[r] = "doIPPreq"
    /\ \E ok \in BOOLEAN :
          IF ok
          THEN /\ hpc' = [hpc EXCEPT ![r] = "ippDo"]
               /\ trace' = IF tracing
                           THEN Append(trace, traceRecord(r, "request"))
                           ELSE trace
               /\ UNCHANGED <<status, outcome>>
          ELSE /\ httpReject(r, StatusBadGateway)
               /\ ended(r, "request decode")
               /\ UNCHANGED trace
    /\ UNCHANGED <<alive, proto, in, caught, route, sent, tracing, rqnum,
                   rq>>

\* doIPP, lines 225-246: p.clnt.Do(out), which may fail; then the bytes
\* the sniffing buffer holds after the message, if any, are sent to the
\* trace.
ippDo(r) ==
    /\ UNCHANGED <<atlVars, pkVars, sdVars, scVars, exVars>>
    /\ alive
    /\ hpc[r] = "ippDo"
    /\ sent' = [sent EXCEPT ![r] = TRUE]
    /\ \E ok \in BOOLEAN, data \in BOOLEAN :
          IF ok
          THEN /\ hpc' = [hpc EXCEPT ![r] = "ippRsp"]
               /\ trace' = IF tracing /\ data
                           THEN Append(trace, traceRecord(r, "data"))
                           ELSE trace
               /\ UNCHANGED <<status, outcome>>
          ELSE /\ httpReject(r, StatusBadGateway)
               /\ ended(r, "upstream")
               /\ UNCHANGED trace
    /\ UNCHANGED <<alive, proto, in, caught, route, tracing, rqnum, rq>>

\* doIPP from the response on, lines 248-275: doIPPrsp, on a response of
\* type application/ipp, decodes the message, which may fail, and sends
\* the translated message to the trace.
ippRsp(r) ==
    /\ UNCHANGED <<atlVars, pkVars, sdVars, scVars, exVars>>
    /\ alive
    /\ hpc[r] = "ippRsp"
    /\ \E ct \in ContentTypes, ok \in BOOLEAN, st \in UpstreamStatus :
          IF ToLower(ct) = "application/ipp"
          THEN IF ok
               THEN /\ trace' = IF tracing
                                THEN Append(trace, traceRecord(r, "response"))
                                ELSE trace
                    /\ forward(r, st)
                    /\ ended(r, "forwarded")
               ELSE /\ httpReject(r, StatusBadGateway)
                    /\ ended(r, "response decode")
                    /\ UNCHANGED trace
          ELSE /\ forward(r, st)
               /\ ended(r, "forwarded as is")
               /\ UNCHANGED trace
    /\ UNCHANGED <<alive, proto, in, caught, route, sent, tracing, rqnum,
                   rq>>

\* Something ServeHTTP does or calls panics: its deferred function runs.
handlerPanic(r) ==
    /\ UNCHANGED <<atlVars, pkVars, sdVars, scVars, exVars>>
    /\ alive
    /\ inHandler(r)
    /\ hpc' = [hpc EXCEPT ![r] = "panicking"]
    /\ UNCHANGED <<alive, proto, in, status, caught, route, sent, tracing,
                   rqnum, rq, trace, outcome>>

\* The deferred function of ServeHTTP, lines 106-111: recover() returns
\* the panic value and log.Panic is called with it.
recovered(r) ==
    /\ UNCHANGED <<atlVars, pkVars, sdVars, scVars, exVars>>
    /\ alive
    /\ hpc[r] = "panicking"
    /\ caught' = [caught EXCEPT ![r] = TRUE]
    /\ alive' = Panic(alive)
    /\ hpc' = [hpc EXCEPT ![r] = IF Panic(alive) THEN "done" ELSE "exit"]
    /\ UNCHANGED <<proto, in, status, route, sent, tracing, rqnum, rq,
                   trace, outcome>>

\* newProxy, for every protocol of the mapping, with and without a trace.
newProxy ==
    /\ alive = TRUE
    /\ proto \in Protos
    /\ in = [r \in Reqs |-> [Method |-> "GET", ContentType |-> ""]]
    /\ hpc = [r \in Reqs |-> "none"]
    /\ status = [r \in Reqs |-> 0]
    /\ caught = [r \in Reqs |-> FALSE]
    /\ route = [r \in Reqs |-> "none"]
    /\ sent = [r \in Reqs |-> FALSE]
    /\ tracing \in BOOLEAN
    /\ rqnum = 0
    /\ rq = [r \in Reqs |-> 0]
    /\ trace = <<>>
    /\ outcome = [r \in Reqs |-> "none"]

InitProxy ==
    newAutoTLSListener /\ noPeeker /\ newProxy /\ noShutdown /\ noExchange /\ noScaling

NextProxy ==
    \E r \in Reqs :
        \/ \E m \in Methods, ct \in ContentTypes : request(r, m, ct)
        \/ ServeHTTP(r)
        \/ doHTTP(r)
        \/ httpRsp(r)
        \/ doIPP(r)
        \/ doIPPreq(r)
        \/ ippDo(r)
        \/ ippRsp(r)
        \/ handlerPanic(r)
        \/ recovered(r)

SpecProxy == InitProxy /\ [][NextProxy]_vars

(***************************************************************************)
(* newProxy's goroutines, proxy.kill and proxy.Shutdown.                   *)
(*                                                                         *)
(* killPc: "ctx.Done" (waits for p.ctx), "closeWait.Done", "finished".     *)
(* servePc: "go" (not yet in Serve), "Serve", "closeWait.Done",            *)
(* "finished".  shutPc: "idle", "closeWait.Wait", "returned".              *)
(***************************************************************************)
\* sync.WaitGroup.Add(1) and Done(): the new counter.
wgAdd(n) == n + 1

wgDoneLost(n) == n

wgDone(n) == n - 1

\* sync.WaitGroup.Wait() returns when the counter is zero.
wgWait(n) == n = 0

\* p.Shutdown(): p.cancel(), then p.closeWait.Wait().
Shutdown(x) ==
    /\ UNCHANGED <<atlVars, pkVars, pxVars, exVars, scVars>>
    /\ shutPc[x] = "idle"
    /\ cancelled' = [cancelled EXCEPT ![x] = TRUE]
    /\ shutPc' = [shutPc EXCEPT ![x] = "closeWait.Wait"]
    /\ UNCHANGED <<srvClosed, closeWait, killPc, servePc>>

\* p.closeWait.Wait() returns, and Shutdown after it.
ShutdownReturn(x) ==
    /\ UNCHANGED <<atlVars, pkVars, pxVars, exVars, scVars>>
    /\ shutPc[x] = "closeWait.Wait"
    /\ wgWait(closeWait[x])
    /\ shutPc' = [shutPc EXCEPT ![x] = "returned"]
    /\ UNCHANGED <<cancelled, srvClosed, closeWait, killPc, servePc>>

\* The context newProxy was called with is cancelled, and p.ctx with it.
parentCancel(x) ==
    /\ UNCHANGED <<atlVars, pkVars, pxVars, exVars, scVars>>
    /\ ~cancelled[x]
    /\ cancelled' = [cancelled EXCEPT ![x] = TRUE]
    /\ UNCHANGED <<srvClosed, closeWait, killPc, servePc, shutPc>>

\* p.kill(): <-p.ctx.Done() returns and p.srv.Close() is called.
kill(x) ==
    /\ UNCHANGED <<atlVars, pkVars, pxVars, exVars, scVars>>
    /\ killPc[x] = "ctx.Done"
    /\ cancelled[x]
    /\ srvClosed' = [srvClosed EXCEPT ![x] = TRUE]
    /\ killPc' = [killPc EXCEPT ![x] = "closeWait.Done"]
    /\ UNCHANGED <<cancelled, closeWait, servePc, shutPc>>

\* p.kill(): p.closeWait.Done().
killDone(x) ==
    /\ UNCHANGED <<atlVars, pkVars, pxVars, exVars, scVars>>
    /\ killPc[x] = "closeWait.Done"
    /\ closeWait' = [closeWait EXCEPT ![x] = wgDone(@)]
    /\ killPc' = [killPc EXCEPT ![x] = "finished"]
    /\ UNCHANGED <<cancelled, srvClosed, servePc, shutPc>>

\* The goroutine of lines 75-78 calls p.srv.Serve(l): on a closed server
\* Serve returns at once.
serve(x) ==
    /\ UNCHANGED <<atlVars, pkVars, pxVars, exVars, scVars>>
    /\ servePc[x] = "go"
    /\ servePc' = [servePc EXCEPT ![x] =
                      IF srvClosed[x] THEN "closeWait.Done" ELSE "Serve"]
    /\ UNCHANGED <<cancelled, srvClosed, closeWait, killPc, shutPc>>

\* p.srv.Serve(l) returns because the server was closed.
serveClosed(x) ==
    /\ UNCHANGED <<atlVars, pkVars, pxVars, exVars, scVars>>
    /\ servePc[x] = "Serve"
    /\ srvClosed[x]
    /\ servePc' = [servePc EXCEPT ![x] = "closeWait.Done"]
    /\ UNCHANGED <<cancelled, srvClosed, closeWait, killPc, shutPc>>

\* p.srv.Serve(l) returns because the listener failed.
serveFailed(x) ==
    /\ UNCHANGED <<atlVars, pkVars, pxVars, exVars, scVars>>
    /\ servePc[x] = "Serve"
    /\ ~srvClosed[x]
    /\ servePc' = [servePc EXCEPT ![x] = "closeWait.Done"]
    /\ UNCHANGED <<cancelled, srvClosed, closeWait, killPc, shutPc>>

\* The goroutine of lines 75-78: p.closeWait.Done().
serveDone(x) ==
    /\ UNCHANGED <<atlVars, pkVars, pxVars, exVars, scVars>>
    /\ servePc[x] = "closeWait.Done"
    /\ closeWait' = [closeWait EXCEPT ![x] = wgDone(@)]
    /\ servePc' = [servePc EXCEPT ![x] = "finished"]
    /\ UNCHANGED <<cancelled, srvClosed, killPc, shutPc>>

\* The proxies when newProxy has returned them: closeWait.Add(1) and go
\* p.kill(), closeWait.Add(1) and the goroutine of p.srv.Serve.
newProxies ==
    /\ cancelled = [x \in Proxies |-> FALSE]
    /\ srvClosed = [x \in Proxies |-> FALSE]
    /\ closeWait = [x \in Proxies |-> wgAdd(wgAdd(0))]
    /\ killPc = [x \in Proxies |-> "ctx.Done"]
    /\ servePc = [x \in Proxies |-> "go"]
    /\ shutPc = [x \in Proxies |-> "idle"]

InitShutdown ==
    newAutoTLSListener /\ noPeeker /\ noProxy /\ newProxies /\ noExchange /\ noScaling

\* What the goroutines of proxy x do when they can.
proxyProgress(x) ==
    \/ ShutdownReturn(x)
    \/ kill(x)
    \/ killDone(x)
    \/ serve(x)
    \/ serveClosed(x)
    \/ serveDone(x)

NextShutdown ==
    \E x \in Proxies :
        \/ Shutdown(x)
        \/ parentCancel(x)
        \/ serveFailed(x)
        \/ proxyProgress(x)

SpecShutdown ==
    /\ InitShutdown
    /\ [][NextShutdown]_vars
    /\ \A x \in Proxies : WF_vars(proxyProgress(x))

(***************************************************************************)
(* One request through ServeHTTP, with its headers and its bodies.         *)
(*                                                                         *)
(* An http.Header maps the names present to the values of each, in the     *)
(* order of the field lines; a value is the sequence of its elements       *)
(* between commas, already trimmed.  The bytes of the bodies and the       *)
(* error texts are strings, so that what is written to the client is a     *)
(* sequence of strings.                                                    *)
(***************************************************************************)
\* textproto.CanonicalMIMEHeaderKey, which http.Header's Get, Set and Del
\* apply to the name they are given, on the names below.
CanonicalMIMEHeaderKey(f) ==
    CASE f = "x-hop" -> "X-Hop"
      [] f = "close" -> "Close"
      [] OTHER -> f

\* http.Header.Get: the first value of the name, "" if there is none.
hdrGet(hdr, k) ==
    IF k \in DOMAIN hdr /\ hdr[k] # <<>> THEN hdr[k][1] ELSE <<>>

\* http.Header.Del
hdrDel(hdr, k) ==
    [n \in DOMAIN hdr \ {CanonicalMIMEHeaderKey(k)} |-> hdr[n]]

\* http.Header.Set: the name gets the single value v.
hdrSet(hdr, k, v) ==
    [n \in DOMAIN hdr \cup {k} |-> IF n = k THEN <<v>> ELSE hdr[n]]

\* hdr.Del(f) for every f of the sequence fs, in order.
RECURSIVE hdrDelAll(_, _)
hdrDelAll(hdr, fs) ==
    IF fs = <<>> THEN hdr
    ELSE hdrDelAll(IF fs[1] # "" THEN hdrDel(hdr, fs[1]) ELSE hdr, Tail(fs))

\* "These headers are always considered hop-by-hop."
HopByHop == <<"Connection", "Keep-Alive", "Proxy-Authenticate",
              "Proxy-Connection", "Proxy-Authorization", "Te", "Trailer",
              "Transfer-Encoding">>

\* httpRemoveHopByHopHeaders: the headers named in hdr.Get("Connection"),
\* then the headers of HopByHop.
httpRemoveHopByHopHeaders(hdr) ==
    hdrDelAll(hdrDelAll(hdr, hdrGet(hdr, "Connection")), HopByHop)

\* httpCopyHeaders
httpCopyHeaders(dst, src) ==
    [k \in DOMAIN dst \cup (DOMAIN src \ {"Content-Length"}) |->
        IF k \in DOMAIN src \ {"Content-Length"} THEN src[k] ELSE dst[k]]

\* httpNoCache
httpNoCacheNone(hdr) == hdr

httpNoCache(hdr) ==
    hdrSet(hdrSet(hdrSet(hdr,
        "Cache-Control", <<"no-cache", "no-store", "must-revalidate">>),
        "Pragma", <<"no-cache">>),
        "Expires", <<"0">>)

\* strconv.FormatInt(n, 10)
FormatInt(n) == ToString(n)

\* doIPPreq and doIPPrsp: the Content-Length of a message of length cl
\* ("unknown" is -1) whose first count bytes are replaced by n bytes.
adjustContentLengthNoCount(cl, n, count) == IF cl >= 0 THEN cl + n ELSE cl

adjustContentLengthAlways(cl, n, count) == cl + n - count

adjustContentLength(cl, n, count) ==
    IF cl >= 0 THEN cl + n - count ELSE cl

\* The value of a header that has one element, as a string.
hdrText(v) == IF v = <<>> THEN "" ELSE v[1]

\* The bytes of a body of n bytes, each named after its place.
Bytes(tag, n) == [i \in 1..n |-> tag \o ToString(i)]

\* Header fields a message may carry besides those on its content: none
\* that is hop-by-hop; a Connection field that names X-Hop, next to
\* Keep-Alive and Te; two Connection fields, of which the second names
\* X-Hop.
Headers ==
    { ("X-End" :> << <<"v">> >>),
      ("X-End" :> << <<"v">> >>) @@ ("X-Hop" :> << <<"v">> >>)
          @@ ("Connection" :> << <<"close", "", "x-hop">> >>)
          @@ ("Keep-Alive" :> << <<"timeout=5">> >>)
          @@ ("Te" :> << <<"trailers">> >>),
      ("X-End" :> << <<"v">> >>) @@ ("X-Hop" :> << <<"v">> >>)
          @@ ("Connection" :> << <<"close">>, <<"X-Hop">> >>) }

\* The header of a message: the fields on its content and the fields h.
\* A message of unknown length is chunked and carries no Content-Length.
messageHeader(h, ct, cl) ==
    h @@ (IF ct = "" THEN NoHeader ELSE ("Content-Type" :> << <<ct>> >>))
      @@ (IF cl < 0 THEN NoHeader
          ELSE ("Content-Length" :> << <<FormatInt(cl)>> >>))

\* The requests a client sends, with the body b: an IPP request, a GET
\* (without a body), and a request that is neither.
Requests(b) ==
    {[Method |-> "POST", ContentLength |-> cl,
      Header |-> messageHeader(h, ct, cl)] :
        cl \in {Len(b), -1}, h \in Headers,
        ct \in {"application/ipp", "Application/IPP"}}
    \cup
    {[Method |-> m, ContentLength |-> Len(b),
      Header |-> IF m = "GET" THEN h
                 ELSE messageHeader(h, "text/plain", Len(b))] :
        m \in (IF b = <<>> THEN {"GET", "PUT"} ELSE {"PUT"}), h \in Headers}

\* The responses an upstream server sends.
Responses ==
    {[StatusCode |-> s,
      ContentLength |-> IF known THEN Len(b) ELSE -1,
      Header |-> messageHeader(h, ct, IF known THEN Len(b) ELSE -1),
      Body |-> b] :
        s \in UpstreamStatus, h \in Headers,
        ct \in {"application/ipp", "text/html"},
        b \in {Bytes("r", n) : n \in 0..MaxRspBody}, known \in BOOLEAN}

\* The messages an encoder produces.
Encoded == {Bytes("m", n) : n \in 1..MaxRepl}

\* The error texts.
ErrBadRequest == "Bad Request"
ErrLocalURL == "can't parse local URL"
ErrDecode == "decode"
ErrTransport == "transport"
ErrIPP(e) == "IPP error: " \o e

\* http.ResponseWriter.WriteHeader: the first call sends the status and
\* the header as it is then; calls counts the calls.
WriteHeaderNone(wr, st) == wr

WriteHeader(wr, st) ==
    IF wr.status # 0 THEN [wr EXCEPT !.calls = @ + 1]
    ELSE [wr EXCEPT !.status = st, !.sent = wr.Header, !.calls = @ + 1]

\* httpReject: the body it writes.
rejectBody(e) == <<e, "\n">>

\* httpReject, on the http.ResponseWriter wr.
rejectWriter(wr, st, e) ==
    LET wh == WriteHeader(
                 [wr EXCEPT !.Header =
                     httpNoCache(hdrSet(wr.Header, "Content-Type",
                                        <<"text/plain; charset=utf-8">>))],
                 st)
    IN  [wh EXCEPT !.body = wh.body \o rejectBody(e)]

\* httpReject and the return of its caller and of ServeHTTP.
exReject(st, e) ==
    /\ w' = rejectWriter(w, st, e)
    /\ xerr' = e
    /\ xpc' = "done"
\* The variables of the proxy that an exchange leaves alone: all but
\* the request counter.
pxRest == <<alive, proto, in, hpc, status, caught, route, sent, tracing, rq,
            trace, outcome>>

\* p.trace.Send(name, data): the number and the kind that make the name,
\* and the data.
traceSend(kind, data) ==
    xtrace' = IF xtracing
              THEN Append(xtrace, [num |-> rqnum, kind |-> kind,
                                   data |-> data])
              ELSE xtrace

\* ServeHTTP: the dispatch.
exServeHTTP ==
    /\ UNCHANGED <<atlVars, pkVars, pxVars, sdVars, scVars>>
    /\ xpc = "ServeHTTP"
    /\ LET ct == ToLower(hdrText(hdrGet(xin.Header, "Content-Type")))
       IN  IF /\ proto = "protoIPP"
              /\ xin.Method = "POST"
              /\ ct = "application/ipp"
           THEN xpc' = "doIPP" /\ UNCHANGED <<w, xerr>>
           ELSE IF xin.Method = "GET"
           THEN xpc' = "doHTTP" /\ UNCHANGED <<w, xerr>>
           ELSE exReject(StatusBadRequest, ErrBadRequest)
    /\ UNCHANGED <<xin, upstream11, xtracing, xtrace, xout, sniffBuff, trailing, rsp0,
                   rsp>>

\* p.clnt.Do(out) returns the response r0: rsp, and rsp.Body as the
\* reader over body.
response(r0) ==
    /\ rsp0' = r0
    /\ rsp' = [StatusCode |-> r0.StatusCode, Header |-> r0.Header,
               ContentLength |-> r0.ContentLength]
    /\ body' = r0.Body
    /\ inPos' = 0
    /\ inClosed' = FALSE
    /\ out' = "tee"
    /\ mrLeft' = 2
    /\ buf' = <<>>
    /\ pos' = 0
    /\ got' = <<>>
    /\ total' = 0
    /\ anchor' = [op |-> "new", data |-> <<>>, at |-> 0, rec |-> TRUE,
                  n |-> 0, prev |-> noReset]
    /\ atEOF' = FALSE

\* outreq: the header of the outgoing request.
outreq(hdr) == httpRemoveHopByHopHeaders(hdr)

\* doHTTP up to the return of p.clnt.Do(out), lines 169-185.
exDoHTTP ==
    /\ UNCHANGED <<atlVars, pxVars, sdVars, scVars>>
    /\ xpc = "doHTTP"
    /\ xout' = [Header |-> outreq(xin.Header),
                ContentLength |-> xin.ContentLength, ipplen |-> 0]
    /\ \/ /\ exReject(StatusBadGateway, ErrTransport)
          /\ UNCHANGED <<pkVars, rsp0, rsp>>
       \/ /\ \E r0 \in Responses : response(r0)
          /\ xpc' = "WriteHeader"
          /\ UNCHANGED <<w, xerr>>
    /\ UNCHANGED <<xin, upstream11, xtracing, xtrace, sniffBuff, trailing>>

\* doIPP up to the call of doIPPreq, lines 207-218.
exDoIPP ==
    /\ UNCHANGED <<atlVars, pkVars, pxRest, sdVars, scVars>>
    /\ xpc = "doIPP"
    /\ rqnum' = rqnumAdd(rqnum)
    /\ \/ xpc' = "DecodeReq" /\ UNCHANGED <<w, xerr>>
       \/ exReject(StatusBadGateway, ErrLocalURL)
    /\ UNCHANGED <<xin, upstream11, xtracing, xtrace, xout, sniffBuff, trailing, rsp0,
                   rsp>>

\* msg.DecodeEx(peeker, ops) reads from the Peeker.
exDecodeEx ==
    /\ UNCHANGED <<atlVars, pxVars, sdVars, scVars, exVars>>
    /\ xpc \in {"DecodeReq", "DecodeRsp"}
    /\ \E len \in 1..MaxRead : readTee(len)

\* doIPPreq after a successful msg.DecodeEx, lines 298-330, and the
\* trace.TeeReadCloser of doIPP, lines 225-229.  The message is what the
\* decoder has read, at least one byte.
exDoIPPreq ==
    /\ UNCHANGED <<atlVars, pxVars, sdVars, scVars>>
    /\ xpc = "DecodeReq"
    /\ pos >= 1
    /\ traceSend("request", buf)
    /\ \E msg2bytes \in Encoded :
          /\ peekerReplace(msg2bytes)
          /\ xout' = [Header |-> outreq(xin.Header),
                      ContentLength |->
                          adjustContentLength(xin.ContentLength,
                                              Len(msg2bytes), pos),
                      ipplen |-> Len(msg2bytes)]
    /\ trailing' = SubSeq(body, inPos + 1, Len(body))
    /\ sniffBuff' = <<>>
    /\ xpc' = "Do"
    /\ UNCHANGED <<xin, upstream11, xtracing, rsp0, rsp, w, xerr>>

\* msg.DecodeEx fails in doIPPreq, lines 293-296 and 219-223.
exDoIPPreqFail ==
    /\ UNCHANGED <<atlVars, pkVars, pxVars, sdVars, scVars>>
    /\ xpc = "DecodeReq"
    /\ exReject(StatusBadGateway, ErrIPP(ErrDecode))
    /\ UNCHANGED <<xin, upstream11, xtracing, xtrace, xout, sniffBuff, trailing, rsp0,
                   rsp>>

\* Inside p.clnt.Do(out): the transport reads out.Body, the Peeker, or
\* the TeeReadCloser around it that writes what is read to sniffBuff.
exSendBody ==
    /\ UNCHANGED <<atlVars, pxVars, sdVars, scVars>>
    /\ xpc = "Do"
    /\ ~atEOF
    /\ \E len \in 1..MaxRead : readMultiBuf(len) \/ readMultiIn(len)
    /\ sniffBuff' = IF xtracing
                    THEN teeReader(sniffBuff,
                                   SubSeq(got', Len(got) + 1, Len(got')))
                    ELSE sniffBuff
    /\ UNCHANGED <<xpc, xin, upstream11, xtracing, xtrace, xout, trailing, rsp0, rsp, w,
                   xerr>>

\* p.clnt.Do(out) fails in doIPP, lines 234-239.
exDoFail ==
    /\ UNCHANGED <<atlVars, pkVars, pxVars, sdVars, scVars>>
    /\ xpc = "Do"
    /\ exReject(StatusBadGateway, ErrTransport)
    /\ UNCHANGED <<xin, upstream11, xtracing, xtrace, xout, sniffBuff, trailing, rsp0,
                   rsp>>

\* doIPP's "Save sniffed request data", lines 241-246: the data of the
\* record, <<>> if there is no record.
sniffed(sb, ipplen) ==
    IF Len(sb) > ipplen THEN SubSeq(sb, ipplen + 1, Len(sb)) ELSE <<>>

\* doIPP's "Translate IPP response", lines 252-253: the response with
\* the header hdr goes through doIPPrsp.
isIPPAlways(hdr) == TRUE

isIPP(hdr) == ToLower(hdrText(hdrGet(hdr, "Content-Type"))) = "application/ipp"

\* p.clnt.Do(out) returns a response in doIPP, lines 234-253.  It may
\* return it while the transport still reads out.Body: the server
\* answered before it had the whole request.
exDo ==
    /\ UNCHANGED <<atlVars, pxVars, sdVars, scVars>>
    /\ xpc = "Do"
    /\ IF sniffed(sniffBuff, xout.ipplen) # <<>>
       THEN traceSend("data", sniffed(sniffBuff, xout.ipplen))
       ELSE UNCHANGED xtrace
    /\ \E r0 \in Responses :
          /\ response(r0)
          /\ xpc' = IF isIPP(r0.Header) THEN "DecodeRsp" ELSE "WriteHeader"
    /\ UNCHANGED <<xin, upstream11, xtracing, xout, sniffBuff, trailing, w, xerr>>

\* doIPPrsp after a successful msg.DecodeEx, lines 348-380.
exDoIPPrsp ==
    /\ UNCHANGED <<atlVars, pxVars, sdVars, scVars>>
    /\ xpc = "DecodeRsp"
    /\ pos >= 1
    /\ \E msg2bytes \in Encoded :
          /\ peekerReplace(msg2bytes)
          /\ rsp' = [rsp EXCEPT !.ContentLength =
                        adjustContentLength(@, Len(msg2bytes), pos)]
          /\ traceSend("response", msg2bytes)
    /\ xpc' = "WriteHeader"
    /\ UNCHANGED <<xin, upstream11, xtracing, xout, sniffBuff, trailing, rsp0, w, xerr>>

\* msg.DecodeEx fails in doIPPrsp, lines 342-346 and 255-259.
exDoIPPrspFail ==
    /\ UNCHANGED <<atlVars, pxVars, sdVars, scVars>>
    /\ xpc = "DecodeRsp"
    /\ peekerRewind
    /\ exReject(StatusBadGateway, ErrDecode)
    /\ UNCHANGED <<xin, upstream11, xtracing, xtrace, xout, sniffBuff, trailing, rsp0,
                   rsp>>

\* "Copy response headers and status to the client", lines 187-196 and
\* 262-271.
exWriteHeader ==
    /\ UNCHANGED <<atlVars, pkVars, pxVars, sdVars, scVars>>
    /\ xpc = "WriteHeader"
    /\ LET hdr == httpRemoveHopByHopHeaders(rsp.Header)
       IN  /\ w' = WriteHeader(
                      [w EXCEPT !.Header = httpCopyHeaders(@, hdr)],
                      rsp.StatusCode)
           /\ rsp' = [rsp EXCEPT !.Header =
                         IF rsp.ContentLength >= 0
                         THEN hdrSet(hdr, "Content-Length",
                                     <<FormatInt(rsp.ContentLength)>>)
                         ELSE hdr]
    /\ xpc' = "Copy"
    /\ UNCHANGED <<xin, upstream11, xtracing, xtrace, xout, sniffBuff, trailing, rsp0,
                   xerr>>

\* rsp.Body.Read(b): of the Peeker that doIPPrsp made, or of the body
\* of the response.
bodyRead(len) ==
    IF out = "multi"
    THEN readMultiBuf(len) \/ readMultiIn(len)
    ELSE /\ \E r \in inRead(len) : readDone(r, inBytes(r.n), r.n)
         /\ UNCHANGED <<buf, mrLeft>>

\* io.Copy(w, rsp.Body): a read, and the write of what was read.
exCopy ==
    /\ UNCHANGED <<atlVars, pxVars, sdVars, scVars>>
    /\ xpc = "Copy"
    /\ ~atEOF
    /\ bodyRead(MaxRead)
    /\ w' = [w EXCEPT !.body = @ \o SubSeq(got', Len(got) + 1, Len(got'))]
    /\ UNCHANGED <<xpc, xin, upstream11, xtracing, xtrace, xout, sniffBuff, trailing,
                   rsp0, rsp, xerr>>

\* io.Copy has read io.EOF: rsp.Body.Close(), and ServeHTTP returns.
exClose ==
    /\ UNCHANGED <<atlVars, pxVars, sdVars, scVars>>
    /\ xpc = "Copy"
    /\ atEOF
    /\ inClosed' = TRUE
    /\ xpc' = "done"
    /\ UNCHANGED <<body, inPos, out, mrLeft, buf, pos, got, total, anchor,
                   atEOF>>
    /\ UNCHANGED <<xin, upstream11, xtracing, xtrace, xout, sniffBuff, trailing, rsp0,
                   rsp, w, xerr>>

\* A request arrives: ServeHTTP is called with it and a fresh
\* http.ResponseWriter; in.Body is the reader over body.
newExchange ==
    /\ body \in {Bytes("b", n) : n \in 0..MaxBody}
    /\ inPos = 0
    /\ inClosed = FALSE
    /\ out = "tee"
    /\ mrLeft = 2
    /\ buf = <<>>
    /\ pos = 0
    /\ got = <<>>
    /\ total = 0
    /\ anchor = [op |-> "new", data |-> <<>>, at |-> 0, rec |-> TRUE, n |-> 0,
                 prev |-> noReset]
    /\ atEOF = FALSE
    /\ xpc = "ServeHTTP"
    /\ xin \in Requests(body)
    /\ xtracing \in BOOLEAN
    /\ upstream11 \in BOOLEAN
    /\ xtrace = <<>>
    /\ xout = [Header |-> NoHeader, ContentLength |-> 0, ipplen |-> 0]
    /\ sniffBuff = <<>>
    /\ trailing = <<>>
    /\ rsp0 = [StatusCode |-> 0, ContentLength |-> 0, Header |-> NoHeader,
               Body |-> <<>>]
    /\ rsp = [StatusCode |-> 0, Header |-> NoHeader, ContentLength |-> 0]
    /\ w = [Header |-> NoHeader, status |-> 0, sent |-> NoHeader,
            body |-> <<>>, calls |-> 0]
    /\ xerr = ""

InitExchange ==
    newAutoTLSListener /\ newExchange /\ noProxy /\ noShutdown /\ noScaling

NextExchange ==
    \/ exServeHTTP
    \/ exDoHTTP
    \/ exDoIPP
    \/ exDecodeEx
    \/ exDoIPPreq
    \/ exDoIPPreqFail
    \/ exSendBody
    \/ exDoFail
    \/ exDo
    \/ exDoIPPrsp
    \/ exDoIPPrspFail
    \/ exWriteHeader
    \/ exCopy
    \/ exClose

SpecExchange == InitExchange /\ [][NextExchange]_vars

(***************************************************************************)
(* decodeScaling of the WS-Scan protocol.                                  *)
(*                                                                         *)
(* An element is the sequence of its children, each with its Name and its  *)
(* Text; a text is the sequence of its characters.  The elements carry no  *)
(* attributes.                                                             *)
(***************************************************************************)
MaxChildren == 2

ChildNames == {"wscn:ScalingWidth", "wscn:ScalingHeight", "wscn:Other"}

\* The texts "0", "1", "500", "1000", "1001" and "invalid".
ScalingTexts ==
    {<<"0">>, <<"1">>, <<"5", "0", "0">>, <<"1", "0", "0", "0">>,
     <<"1", "0", "0", "1">>, <<"i", "n", "v", "a", "l", "i", "d">>}

ScalingElements ==
    SeqsUpTo([Name : ChildNames, Text : ScalingTexts], MaxChildren)

Digits == <<"0", "1", "2", "3", "4", "5", "6", "7", "8", "9">>

isDigit(ch) == \E i \in DOMAIN Digits : Digits[i] = ch

digit(ch) == (CHOOSE i \in DOMAIN Digits : Digits[i] = ch) - 1

RECURSIVE atoiDigits(_, _)
atoiDigits(t, acc) ==
    IF t = <<>> THEN acc
    ELSE atoiDigits(Tail(t), acc * 10 + digit(Head(t)))

\* strconv.Atoi: an optional sign and decimal digits, at least one.
Atoi(t) ==
    LET signed == t # <<>> /\ Head(t) \in {"+", "-"}
        ds == IF signed THEN Tail(t) ELSE t
    IN  IF ds = <<>> \/ \E i \in DOMAIN ds : ~isDigit(ds[i])
        THEN [val |-> 0, err |-> "invalid syntax"]
        ELSE [val |-> IF signed /\ Head(t) = "-"
                      THEN 0 - atoiDigits(ds, 0) ELSE atoiDigits(ds, 0),
              err |-> "nil"]

\* The decodeValue of decodeScaling, lines 73-79.
decodeValue(t) ==
    IF Atoi(t).err # "nil"
    THEN [val |-> 0, err |-> "invalid integer: " \o Atoi(t).err]
    ELSE [val |-> Atoi(t).val, err |-> "nil"]

\* decodeAttributedElement on an element without attributes.
decodeAttributedElement(child) == decodeValue(child.Text)

\* The loop of decodeScaling over root.Children, lines 83-102: st holds
\* sc, widthFound, heightFound and the error that ends the loop.
RECURSIVE decodeChildren(_, _)
decodeChildren(children, st) ==
    IF children = <<>> \/ st.err # "nil" THEN st
    ELSE LET child == Head(children)
             v == decodeAttributedElement(child)
         IN  decodeChildren(Tail(children),
                CASE child.Name = "wscn:ScalingWidth" ->
                       IF v.err # "nil"
                       THEN [st EXCEPT !.err = "scalingWidth: " \o v.err]
                       ELSE [st EXCEPT !.sc.ScalingWidth = v.val,
                                       !.widthFound = TRUE]
                  [] child.Name = "wscn:ScalingHeight" ->
                       IF v.err # "nil"
                       THEN [st EXCEPT !.err = "scalingHeight: " \o v.err]
                       ELSE [st EXCEPT !.sc.ScalingHeight = v.val,
                                       !.heightFound = TRUE]
                  [] OTHER -> st)

\* decodeScaling: the Scaling and the error it returns.
decodeScaling(children) ==
    LET st == decodeChildren(children,
                 [sc |-> [ScalingWidth |-> 0, ScalingHeight |-> 0],
                  widthFound |-> FALSE, heightFound |-> FALSE,
                  err |-> "nil"])
    IN  IF st.err # "nil" THEN st
        ELSE IF ~st.widthFound
        THEN [st EXCEPT
                 !.err = "missing required element: wscn:ScalingWidth"]
        ELSE IF ~st.heightFound
        THEN [st EXCEPT
                 !.err = "missing required element: wscn:ScalingHeight"]
        ELSE st

\* A caller decodes the element.
scDecode ==
    /\ UNCHANGED <<atlVars, pkVars, pxVars, sdVars, exVars>>
    /\ scPc = "new"
    /\ sc' = decodeScaling(root).sc
    /\ scErr' = decodeScaling(root).err
    /\ scPc' = "decoded"
    /\ UNCHANGED root

newScaling ==
    /\ scPc = "new"
    /\ root \in ScalingElements
    /\ sc = [ScalingWidth |-> 0, ScalingHeight |-> 0]
    /\ scErr = "nil"

InitScaling ==
    newAutoTLSListener /\ noPeeker /\ noProxy /\ noShutdown /\ noExchange
       /\ newScaling

NextScaling == scDecode

SpecScaling == InitScaling /\ [][NextScaling]_vars

(***************************************************************************)
(* Properties of the auto-TLS listener.                                    *)
(***************************************************************************)
\* A goroutine has returned from a child's Accept().
returnedFromAccept(t) == pc[t] = "idle" /\ op[t] \in {"plain", "encrypted"}

\* C1: once close() has run, atl.pending and both queues are empty, in
\* that state and in every later one: nothing is added to pending or
\* pushed to a queue after closed is set.
C1_NoLeakOnClose ==
    closed => (pending = {} /\ plain = <<>> /\ encrypted = <<>>)

\* A connection was under detection when close() ran, and acceptWait has
\* since come back with it and has gone through lines 210-230.
C1_Witness ==
    /\ closed
    /\ \E t \in Tasks :
          /\ atClose[t] = "detect"
          /\ pc[t] = "lock136" /\ err[t] = "closed"

\* C2: every connection accepted from the parent is disposed of at most
\* once: returned to one Accept() caller or aborted one time, never both,
\* never aborted twice.
C2_DisposedOnce ==
    \A s \in Socks : deliveries[s] + aborts[s] <= 1

\* C3: a delivered connection was returned by the encrypted child if and
\* only if its first byte is 0x16, and by the plain child otherwise.
C3_Classification ==
    \A s \in Socks :
        delivered[s] # "none" =>
            (delivered[s] = "encrypted" <=> first[s] = <<TLSHandshake>>)

\* C4: an Accept() call that was blocked (inside parent.Accept(), inside
\* the detection, or in Wait()) when close() ran returns, and what it
\* returns is the listener-closed error.
C4_CloseUnblocks ==
    \A t \in Tasks :
        /\ [](atClose[t] # "no" /\ pc[t] = "idle" => retErr[t] = "closed")
        /\ (atClose[t] # "no") ~> (pc[t] = "idle")

\* One Accept() was in Wait() and another inside the detection when
\* close() ran, and both have returned.
C4_Witness ==
    \E t, u \in Tasks :
        /\ atClose[t] = "wait" /\ returnedFromAccept(t)
        /\ atClose[u] = "detect" /\ returnedFromAccept(u)

\* C5: a detection error on one connection is not returned by the child
\* Accept() that was the accepter.
C5_DetectErrorLocal ==
    \A t \in Tasks : returnedFromAccept(t) => retErr[t] # "detect"

\* Goroutine t, which is in no call, calls Accept() on a child in this
\* step (a call that leaves everything as it was is a stuttering step).
callsAccept(t) ==
    /\ pc[t] = "idle"
    /\ op'[t] \in {"plain", "encrypted"}
    /\ <<pc[t], op[t], retErr[t]>>' # <<pc[t], op[t], retErr[t]>>

\* C21: an Accept() on either child that is called after close() returns
\* the listener-closed error in the same step: it does not wait, does
\* not become the accepter or call parent.Accept(), and returns no
\* connection.
C21_AcceptAfterClose ==
    [][\A t \in Tasks :
          (closed /\ callsAccept(t)) =>
             /\ pc'[t] = "idle"
             /\ retErr'[t] = "closed"
             /\ deliveries' = deliveries
             /\ haveAccepter' = haveAccepter
             /\ nconn' = nconn
      ]_vars

\* close() ran while a connection was in a queue and nobody was inside
\* Accept(); a goroutine has called Accept() since and got the error.
C21_Witness ==
    \E t \in Tasks, s \in Socks :
        /\ closed
        /\ returnedFromAccept(t) /\ retErr[t] = "closed"
        /\ atClose[t] = "no"
        /\ aborts[s] = 1 /\ deliveries[s] = 0 /\ peer[s] = "data"

\* Goroutine t is inside acceptWait, or back from it and about to take
\* the lock of line 136.
inAcceptWait(t) ==
    pc[t] \in {"pAccept", "lock188", "detect", "lock210", "lock136"}

\* Goroutine t runs the body of accept's loop in this step, for the
\* child side.
runsLoop(t, side) ==
    /\ op'[t] = side
    /\ \/ callsAccept(t)
       \/ pc[t] = "lock110" /\ pc'[t] # "lock110"

\* C22: when goroutines use only the Accept() of the children, at most
\* one of them is inside parent.Accept() at any instant (haveAccepter
\* tells whether one is), and every other goroutine that finds its queue
\* empty on an open listener waits on the condition variable.
C22_OneAccepter ==
    /\ [](Cardinality({t \in Tasks : inAcceptWait(t)}) <= 1)
    /\ [](haveAccepter <=> \E t \in Tasks : inAcceptWait(t))
    /\ [][\A t \in Tasks :
             /\ (runsLoop(t, "plain") /\ plain = <<>> /\ ~closed
                 /\ \E u \in Tasks \ {t} : inAcceptWait(u))
                   => pc'[t] = "wait"
             /\ (runsLoop(t, "encrypted") /\ encrypted = <<>> /\ ~closed
                 /\ \E u \in Tasks \ {t} : inAcceptWait(u))
                   => pc'[t] = "wait"
      ]_vars

\* One goroutine is inside parent.Accept() and another waits.
C22_Witness ==
    \E t, u \in Tasks : pc[t] = "pAccept" /\ pc[u] = "wait"

\* The elements of the sequence q.
inQueue(q) == {q[i] : i \in DOMAIN q}

\* The number of places connection s is in: atl.pending, the plain
\* queue, the encrypted queue, returned to a caller of Accept(), aborted.
places(s) ==
    (IF s \in pending THEN 1 ELSE 0)
    + (IF s \in inQueue(plain) THEN 1 ELSE 0)
    + (IF s \in inQueue(encrypted) THEN 1 ELSE 0)
    + (IF deliveries[s] > 0 THEN 1 ELSE 0)
    + (IF aborts[s] > 0 THEN 1 ELSE 0)

\* C23: at every reachable state each connection accepted from the
\* parent is in exactly one of pending, the plain queue, the encrypted
\* queue, returned-to-caller and aborted.
C23_ExactlyOnePlace ==
    \A s \in 1..nconn : places(s) = 1

\* C23, amended: a connection accepted from the parent is never in two
\* of them, and it is in none only while acceptWait holds it in its
\* local c, accepted and not yet added to pending.
C23_AtMostOnePlace ==
    \A s \in 1..nconn :
        /\ places(s) <= 1
        /\ places(s) = 0 => \E t \in Tasks : c[t] = s /\ pc[t] = "lock188"

\* One connection is in pending, another in a queue.
C23_Witness ==
    \E s, r \in 1..nconn :
        /\ s \in pending
        /\ r \in inQueue(plain) \cup inQueue(encrypted)

\* The peer of the accepted connection s has sent nothing and has not
\* ended the connection.
frozen(s) == s \in 1..nconn /\ peer[s] = "silent"

\* A goroutine is in the detection on s, or back from it and about to
\* take the lock of line 210.
detecting(t, s) == c[t] = s /\ pc[t] \in {"detect", "lock210"}

\* C24: a connection whose peer never sends a first byte stays in
\* pending, is never pushed to a queue and never returned by Accept(),
\* until close(); close() removes it from pending and aborts it, and the
\* goroutine blocked in the detection on it terminates.
C24_FrozenClient ==
    /\ [](\A s \in Socks :
             frozen(s) =>
                /\ s \notin inQueue(plain) \cup inQueue(encrypted)
                /\ deliveries[s] = 0
                /\ (~closed /\ \E t \in Tasks : detecting(t, s))
                      => s \in pending
                /\ (closed /\ \A t \in Tasks : ~(c[t] = s /\ pc[t] = "lock188"))
                      => (s \notin pending /\ aborts[s] >= 1))
    /\ \A t \in Tasks :
          (closed /\ pc[t] = "detect") ~> (pc[t] = "idle")

\* The peer of the accepted connection s dropped it before it sent a
\* byte.
dropped(s) == s \in 1..nconn /\ peer[s] = "reset"

\* C25: a connection that its peer drops before it sends a byte, while
\* the detection has not completed, is never pushed to the plain or the
\* encrypted queue (and so never returned); acceptWait takes it out of
\* pending with an error and aborts it, and once that has happened for
\* the connections accepted, pending and both queues are empty without
\* a close().
C25_AbortingClient ==
    /\ [](\A s \in Socks :
             dropped(s) =>
                /\ s \notin inQueue(plain) \cup inQueue(encrypted)
                /\ deliveries[s] = 0
                /\ (\A t \in Tasks : c[t] # s)
                      => (s \notin pending /\ aborts[s] >= 1))
    /\ [][\A t \in Tasks :
             (pc[t] = "lock210" /\ pc'[t] # "lock210" /\ c[t] # NoConn
              /\ dropped(c[t]))
                => (err'[t] \in {"detect", "closed"}
                    /\ c[t] \notin pending')
      ]_vars
    /\ \A s \in Socks :
          dropped(s) ~> (s \notin pending /\ aborts[s] >= 1)
    /\ []((~closed /\ \A s \in 1..nconn : dropped(s) /\ \A t \in Tasks : c[t] # s)
             => (pending = {} /\ plain = <<>> /\ encrypted = <<>>))

\* The peer of the accepted connection s has sent its first byte.
spoke(s) == s \in 1..nconn /\ peer[s] = "data"

waitsOn(t, side) == op[t] = side /\ pc[t] \in {"wait", "lock110"}

\* In this step the Accept() of goroutine u on the child of that side
\* returns a connection: u holds the lock, no other goroutine moves
\* unless u wakes it.
receives(u, side) ==
    /\ pc[u] \in {"idle", "lock110", "lock136"}
    /\ pc'[u] = "idle" /\ op'[u] = side /\ retErr'[u] = "nil"
    /\ \A v \in Tasks \ {u} :
          pc'[v] = pc[v] \/ (pc[v] = "wait" /\ pc'[v] = "lock110")
    /\ \E s \in Socks :
          deliveries'[s] = deliveries[s] + 1 /\ delivered'[s] = side

\* C27: goroutines waiting in Accept() on the same child are served in
\* the order in which they started to wait: a connection of that side
\* does not go to a goroutine that calls Accept() on the child while
\* another one, which started to wait there before, still waits.
C27_WaiterFIFO ==
    [][\A t, u \in Tasks : \A side \in {"plain", "encrypted"} :
          (u # t /\ waitsOn(t, side) /\ pc'[t] = pc[t] /\ pc[u] = "idle")
             => ~receives(u, side)
      ]_vars

\* C27, amended: the goroutines waiting in Accept() are served in no
\* fixed order.  Every goroutine in Wait() is woken when the accepter
\* comes back from acceptWait, and a step that returns a connection
\* takes one connection, the oldest of its queue, and gives it to a
\* goroutine whose Accept() on the child of that side holds the lock in
\* that step.
C27_WaitersWoken ==
    [][/\ \A t \in Tasks :
             (pc[t] = "lock136" /\ pc'[t] # "lock136")
                => \A u \in Tasks : pc[u] = "wait" => pc'[u] = "lock110"
       /\ \A s \in Socks :
             deliveries'[s] # deliveries[s] =>
                /\ deliveries'[s] = deliveries[s] + 1
                /\ \A r \in Socks \ {s} : deliveries'[r] = deliveries[r]
                /\ \E side \in {"plain", "encrypted"} :
                      LET q == IF side = "plain" THEN plain ELSE encrypted
                          qn == IF side = "plain" THEN plain' ELSE encrypted'
                      IN  /\ q # <<>>
                          /\ s = Head(q)
                          /\ qn = Tail(q)
                          /\ \E t \in Tasks : receives(t, side)
      ]_vars

\* A goroutine has a connection from the Accept() of a child on which
\* another goroutine, woken, has not been served.
C27_Witness ==
    \E t, u \in Tasks : \E s \in Socks :
        /\ u # t
        /\ pc[t] = "lock110"
        /\ returnedFromAccept(u) /\ retErr[u] = "nil" /\ op[u] = op[t]
        /\ deliveries[s] = 1 /\ delivered[s] = op[u]

\* The connections of the child of that side, oldest first.
queueOf(side) == IF side = "plain" THEN plain ELSE encrypted

\* C30: each queue is first in, first out.  A step that changes the
\* queue of a side either puts one connection behind those already
\* there, or takes the oldest one, which the Accept() of that side's
\* child returns, and leaves the others in their order, or is the
\* close() that empties the queue.
C30_QueueFIFO ==
    [][\A side \in {"plain", "encrypted"} :
          queueOf(side)' # queueOf(side) =>
             \/ \E s \in Socks \ inQueue(queueOf(side)) :
                   queueOf(side)' = Append(queueOf(side), s)
             \/ /\ queueOf(side) # <<>>
                /\ queueOf(side)' = Tail(queueOf(side))
                /\ delivered'[Head(queueOf(side))] = side
                /\ deliveries'[Head(queueOf(side))]
                      = deliveries[Head(queueOf(side))] + 1
                /\ \E t \in Tasks : receives(t, side)
             \/ /\ ~closed /\ closed'
                /\ queueOf(side)' = <<>>
      ]_vars

\* Two connections were in the queue of one side; Accept() has returned
\* the one pushed first and the other one is still queued.
C30_Witness ==
    \E side \in {"plain", "encrypted"} : \E s, r \in Socks :
        /\ s < r
        /\ delivered[s] = side /\ deliveries[s] = 1
        /\ queueOf(side) = <<r>>
        /\ \A t \in Tasks : c[t] = NoConn

\* Goroutine t is about to take the lock: at accept's Lock() after
\* Wait() or after acceptWait, or at one of acceptWait's two Lock().
atLock(t) == pc[t] \in {"lock110", "lock188", "lock210", "lock136"}

\* C31: the accepter does not hold the lock while it is blocked in
\* parent.Accept() or in the detection, so whatever the others are
\* blocked in, a goroutine that is about to take the lock can take it
\* and go on, a goroutine in no call can call Accept() on either child,
\* and close() can run; and a goroutine is in Wait() only while the
\* listener is open and another goroutine, the accepter, has still to
\* broadcast: no wake-up is lost.
C31_NoDeadlock ==
    /\ \A t \in Tasks : atLock(t) => ENABLED taskProgress(t)
    /\ \A t \in Tasks :
          pc[t] = "idle" =>
             (ENABLED Accept(t, TRUE)) /\ (ENABLED Accept(t, FALSE))
    /\ ENABLED close
    /\ \A t \in Tasks :
          pc[t] = "wait" =>
             ~closed /\ \E u \in Tasks \ {t} : inAcceptWait(u)

\* close() ran while the accepter was blocked in the detection on the
\* connection of a silent peer and another goroutine was in Wait(); the
\* goroutine that waited has returned, the accepter is about to take
\* the lock.
C31_Witness ==
    \E t, u \in Tasks :
        /\ closed
        /\ atClose[t] = "detect" /\ pc[t] = "lock210"
        /\ atClose[u] = "wait" /\ returnedFromAccept(u)
        /\ retErr[u] = "closed"

\* C32: with the children's Accept() only, the flag haveAccepter is set
\* from parent.Accept() to the end of the detection, at most one
\* connection is in atl.pending, and no goroutine is in parent.Accept()
\* while the detection on a connection is going on.
C32_DetectionByAccepter ==
    /\ \A t \in Tasks :
          pc[t] \in {"pAccept", "lock188", "detect", "lock210"}
             => haveAccepter
    /\ Cardinality(pending) <= 1
    /\ \A t, u \in Tasks :
          (u # t /\ pc[t] = "pAccept")
             => (pc[u] \notin {"lock188", "detect", "lock210"}
                 /\ c[u] = NoConn)
    /\ \A s \in pending : \E t \in Tasks : c[t] = s /\ inAcceptWait(t)

\* The accepter is in the detection, its connection in atl.pending, and
\* the other goroutine, which called Accept() meanwhile, waits.
C32_Witness ==
    \E t, u \in Tasks :
        /\ pc[t] = "detect" /\ pending = {c[t]}
        /\ haveAccepter
        /\ pc[u] = "wait"

\* C33: haveAccepter is never true with no accepter at work.  The
\* goroutine that takes the role sets it; when acceptWait has returned,
\* for whatever reason, the accepter takes the lock, wakes every
\* goroutine in Wait(), and the flag is false afterwards unless the same
\* goroutine, still in its loop, took the role again in that step.
C33_AccepterFlag ==
    /\ [](haveAccepter => \E t \in Tasks : inAcceptWait(t))
    /\ [][\A t \in Tasks :
             /\ (~inAcceptWait(t) /\ pc'[t] = "pAccept")
                   => (~haveAccepter /\ haveAccepter')
             /\ (pc[t] = "lock136" /\ pc'[t] # "lock136")
                   => /\ \A u \in Tasks : pc[u] = "wait" => pc'[u] = "lock110"
                      /\ haveAccepter' <=> pc'[t] = "pAccept"
                      /\ err[t] # "nil" => (~haveAccepter' /\ pc'[t] = "idle"
                                            /\ retErr'[t] = err[t])
      ]_vars

\* The accepter has returned an error of parent.Accept() from Accept();
\* the flag is false and the goroutine that waited goes on.
C33_Witness ==
    \E t, u \in Tasks :
        /\ returnedFromAccept(t) /\ retErr[t] = "parent"
        /\ ~haveAccepter
        /\ pc[u] = "lock110"
        /\ ~closed

(***************************************************************************)
(* Properties of the Peeker.                                               *)
(***************************************************************************)
\* The last Rewind or Replace was the first one: the Peeker was recording
\* until then, and anchor.at bytes had been read.
firstReset(o) == anchor.op = o /\ anchor.rec

\* C7: after Read calls that returned k bytes of body B and Replace(R),
\* the reads that follow return R followed by B[k..], and nothing else
\* up to io.EOF.
C7_ReplaceSplice ==
    firstReset("Replace") =>
        LET want == anchor.data \o SubSeq(body, anchor.at + 1, Len(body))
        IN  IsPrefix(got, want) /\ (atEOF => got = want)

\* A Replace in the middle of the body, by a replacement that is not
\* empty, has been drained to io.EOF.
C7_Witness ==
    /\ firstReset("Replace")
    /\ atEOF
    /\ 0 < anchor.at /\ anchor.at < Len(body)
    /\ anchor.data # <<>>
    /\ got # body

\* C8: after k bytes of body B were read while recording, Rewind and the
\* reads that follow return B, and nothing else up to io.EOF.
C8_RewindIdentity ==
    firstReset("Rewind") =>
        IsPrefix(got, body) /\ (atEOF => got = body)

\* A Rewind in the middle of the body has been drained to io.EOF.
C8_Witness ==
    /\ firstReset("Rewind")
    /\ atEOF
    /\ 0 < anchor.at /\ anchor.at < Len(body)

\* C9: Count() is the number of bytes all Read calls returned, in every
\* mode; no step decreases it, and Rewind and Replace leave it unchanged.
C9_Count ==
    /\ pos = total
    /\ [][/\ pos' = total'
          /\ pos' >= pos
          /\ (anchor' # anchor => pos' = pos)]_vars

\* Bytes read again after a Rewind have been counted.
C9_Witness ==
    /\ anchor.op = "Rewind"
    /\ got # <<>>
    /\ pos > anchor.at
    /\ pos > Len(body)

\* C10: as long as neither Rewind nor Replace has been called, Bytes() is
\* the concatenation of the bytes the Read calls returned, and its length
\* is Count().
C10_Recording ==
    out = "tee" => (buf = got /\ Len(buf) = pos)

\* The whole body was read while recording, in more than one Read.
C10_Witness ==
    /\ out = "tee"
    /\ atEOF
    /\ Len(got) = MaxBody
    /\ got[1] # got[2]

\* y ends with x.
IsSuffix(x, y) ==
    Len(x) <= Len(y) /\ x = SubSeq(y, Len(y) - Len(x) + 1, Len(y))

\* C34: after Rewind or Replace a Read never appends to p.buf: what is
\* left in the buffer after the Read is the end of what was there
\* before it, a Read takes bytes from upstream only when the buffer is
\* empty, and the bytes it takes from upstream are not put in the
\* buffer.
C34_NoRecording ==
    [][(out = "multi" /\ anchor' = anchor) =>
          /\ IsSuffix(buf', buf)
          /\ inPos' # inPos => (buf = <<>> /\ buf' = <<>>)
      ]_vars

\* After a Rewind in the middle of the body the reads have returned the
\* buffered bytes and then bytes from upstream, and the buffer is empty.
C34_Witness ==
    /\ firstReset("Rewind")
    /\ 0 < anchor.at
    /\ inPos > anchor.at
    /\ Len(got) = inPos
    /\ buf = <<>>

\* C35: Rewind gives the start of the stream back only once.  After a
\* first Rewind, m bytes read and a second Rewind, the reads return
\* B[m..] and nothing else up to io.EOF: not B again when m > 0, and B
\* when no byte was read between the two calls.
C35_RewindOnce ==
    (anchor.op = "Rewind" /\ anchor.prev.op = "Rewind" /\ anchor.prev.rec) =>
        LET want == SubSeq(body, anchor.prev.read + 1, Len(body))
        IN  IsPrefix(got, want) /\ (atEOF => got = want)

\* A second Rewind, after some but not all of the bytes the first one
\* gave back were read again, has been drained to io.EOF.
C35_Witness ==
    /\ anchor.op = "Rewind" /\ anchor.prev.op = "Rewind" /\ anchor.prev.rec
    /\ 0 < anchor.prev.read /\ anchor.prev.read < Len(body)
    /\ atEOF
    /\ got = SubSeq(body, anchor.prev.read + 1, Len(body))
    /\ got # <<>>

isIPPType(ct) == ct \in {"application/ipp", "Application/IPP"}

\* C14: a request takes the IPP pipeline if and only if the protocol of
\* the mapping is IPP, the method is POST and the Content-Type is
\* application/ipp in any case; otherwise the passthrough if and only if
\* the method is GET; otherwise it is answered 400 and no upstream
\* request is made.
C14_Dispatch ==
    \A r \in Reqs :
        route[r] # "none" =>
            LET ipp == /\ proto = "protoIPP"
                       /\ in[r].Method = "POST"
                       /\ isIPPType(in[r].ContentType)
            IN  /\ route[r] = "doIPP" <=> ipp
                /\ route[r] = "doHTTP" <=> (~ipp /\ in[r].Method = "GET")
                /\ route[r] = "httpReject" <=> (~ipp /\ in[r].Method # "GET")
                /\ route[r] = "httpReject" =>
                       (~sent[r] /\ (hpc[r] = "done" =>
                                        status[r] = StatusBadRequest))

\* A POST of Application/IPP went to the IPP pipeline, and another
\* request was passed through upstream or was a PUT and rejected.
C14_Witness ==
    /\ \E r \in Reqs : route[r] = "doIPP" /\ in[r].ContentType = "Application/IPP"
    /\ \E r \in Reqs :
          \/ route[r] = "doHTTP" /\ sent[r]
          \/ route[r] = "httpReject" /\ in[r].Method = "PUT" /\ hpc[r] = "done"

\* The kinds of the trace records made for request r, in the order of
\* the trace.
RECURSIVE kindsOf(_, _)
kindsOf(tr, r) ==
    IF tr = <<>> THEN <<>>
    ELSE IF Head(tr).req = r THEN <<Head(tr).kind>> \o kindsOf(Tail(tr), r)
    ELSE kindsOf(Tail(tr), r)

\* The handler of r has run the IPP pipeline to an end.
ippEnded(r) == route[r] = "doIPP" /\ hpc[r] = "done"

\* C17, as claimed: with a trace, every IPP request has one request
\* record, then at most one data record, then one response record.
C17_TraceLayout ==
    \A r \in Reqs :
        tracing /\ ippEnded(r) =>
            kindsOf(trace, r) \in {<<"request", "response">>,
                                   <<"request", "data", "response">>}

\* C17, as the code has it: the records of a request are, in this order,
\* one request record once its message is decoded, at most one data
\* record once upstream has answered, and one response record when the
\* answer is an application/ipp message that decodes, and only then;
\* without a trace there are no records.
C17_TraceLayoutDecoded ==
    \A r \in Reqs :
        LET k == kindsOf(trace, r)
        IN  /\ ~tracing => k = <<>>
            /\ k \in {<<>>, <<"request">>, <<"request", "data">>,
                      <<"request", "response">>,
                      <<"request", "data", "response">>}
            /\ tracing /\ hpc[r] \in {"ippDo", "ippRsp"} =>
                   k # <<>> /\ k[Len(k)] # "response"
            /\ tracing /\ ippEnded(r) =>
                   /\ outcome[r] = "forwarded" <=>
                          (k # <<>> /\ k[Len(k)] = "response")
                   /\ outcome[r] \in {"msgxlat", "request decode"} <=> k = <<>>

\* With a trace, one IPP request ended with all three records and
\* another one with its request record only.
C17_Witness ==
    /\ tracing
    /\ \E r, q \in Reqs :
          /\ ippEnded(r) /\ ippEnded(q)
          /\ kindsOf(trace, r) = <<"request", "data", "response">>
          /\ kindsOf(trace, q) = <<"request">>

\* The handler of r has entered the IPP pipeline (and has not panicked).
entered(r) ==
    /\ route[r] = "doIPP"
    /\ hpc[r] \in {"doIPPreq", "ippDo", "ippRsp", "done"}

\* C19: two requests that entered the IPP pipeline have different
\* rqnum values; a request that enters gets a value above those of all
\* that entered before; every trace record carries the value of the
\* request it was made for.
C19_Rqnum ==
    /\ [](\A r, q \in Reqs :
             r # q /\ entered(r) /\ entered(q) => rq[r] # rq[q])
    /\ [](\A i \in 1..Len(trace) : trace[i].num = rq[trace[i].req])
    /\ [][\A r \in Reqs :
             ~entered(r) /\ entered(r)' =>
                 \A q \in Reqs : rq'[r] > rq[q]]_vars

\* Two requests were in the IPP pipeline at once, and the trace has the
\* request record of the second before a record of the first.
C19_Witness ==
    \E r, q \in Reqs :
        /\ rq[r] = 1 /\ rq[q] = 2
        /\ \E i, j \in 1..Len(trace) :
              i < j /\ trace[i].req = q /\ trace[j].req = r

(***************************************************************************)
(* Properties of Shutdown.                                                 *)
(***************************************************************************)
\* C20: the cancellation makes the kill goroutine close the server;
\* Shutdown returns only when the kill goroutine and the Serve goroutine
\* have both finished; and a Shutdown that was called returns.
C20_Shutdown ==
    \A x \in Proxies :
        /\ [](shutPc[x] = "returned" =>
                 killPc[x] = "finished" /\ servePc[x] = "finished")
        /\ cancelled[x] ~> srvClosed[x]
        /\ (shutPc[x] = "closeWait.Wait") ~> (shutPc[x] = "returned")

\* Shutdown was called for two proxies and has returned for both, after
\* their servers were closed.
C20_Witness ==
    \E x, y \in Proxies :
        /\ x # y
        /\ shutPc[x] = "returned" /\ shutPc[y] = "returned"
        /\ srvClosed[x] /\ srvClosed[y]


(***************************************************************************)
(* Properties of one exchange.                                             *)
(***************************************************************************)
\* The number of bytes of the request body that the decoder of doIPPreq
\* consumed, once doIPPreq has returned.
consumed == Len(body) - Len(trailing)

\* C11: when the Content-Length L of an IPP request is known, the
\* Content-Length of the outgoing request is L plus the length of the
\* re-encoded message minus Count(), and Count(), taken after Replace, is
\* the number of bytes the decoder consumed, so that the outgoing length
\* is the length of the body that is sent; when the incoming length is
\* unknown (-1), the outgoing length is unknown too.
C11_ContentLength ==
    xpc = "Do" =>
       /\ anchor.at = consumed
       /\ xin.ContentLength >= 0 =>
             /\ xout.ContentLength
                   = xin.ContentLength + xout.ipplen - consumed
             /\ xout.ContentLength = xout.ipplen + Len(trailing)
             /\ atEOF => Len(got) = xout.ContentLength
       /\ xin.ContentLength = -1 => xout.ContentLength = -1

\* The whole body of an IPP request of known length was sent upstream:
\* a re-encoded message whose length differs from the length of the
\* message received, and bytes after it.
C11_Witness ==
    /\ xpc = "Do"
    /\ atEOF
    /\ xin.ContentLength >= 0
    /\ consumed >= 1
    /\ xout.ipplen # consumed
    /\ Len(trailing) >= 1


\* The names that the Connection fields of the header hdr give as
\* elements, as header names.
connectionTokens(hdr) ==
    IF "Connection" \in DOMAIN hdr
    THEN UNION {{CanonicalMIMEHeaderKey(hdr["Connection"][i][j]) :
                    j \in 1..Len(hdr["Connection"][i])} :
                i \in DOMAIN hdr["Connection"]}
    ELSE {}

\* The names that are hop-by-hop in a message with the header hdr.
hopByHop(hdr) ==
    {HopByHop[i] : i \in DOMAIN HopByHop} \cup connectionTokens(hdr)

\* The names of the fields of hdr that are not hop-by-hop.
endToEnd(hdr) ==
    DOMAIN hdr \ hopByHop(hdr)

\* The status and the header of the response of upstream were written
\* to the client.
forwarded == xpc \in {"Copy", "done"} /\ xerr = ""

\* C12: on a successful exchange the header sent to the client is the
\* header of the upstream response without Content-Length, and when the
\* length of the response (adjusted by doIPPrsp) is known, the header
\* written to the client at the status line has a Content-Length with
\* that length.
C12_ResponseHeaders ==
    forwarded =>
       /\ w.status = rsp0.StatusCode
       /\ \A k \in DOMAIN w.sent \ {"Content-Length"} :
             k \in DOMAIN rsp0.Header /\ w.sent[k] = rsp0.Header[k]
       /\ endToEnd(rsp0.Header) \ {"Content-Length"} \subseteq DOMAIN w.sent
       /\ rsp.ContentLength >= 0 =>
             /\ "Content-Length" \in DOMAIN w.sent
             /\ w.sent["Content-Length"]
                   = << <<FormatInt(rsp.ContentLength)>> >>


\* C13: the request forwarded upstream and the response header returned
\* to the client contain none of Connection, Keep-Alive,
\* Proxy-Authenticate, Proxy-Authorization, Proxy-Connection, TE, Trailer
\* and Transfer-Encoding, and no header that the Connection header of
\* the message being forwarded names.
C13_HopByHop ==
    /\ DOMAIN xout.Header \cap hopByHop(xin.Header) = {}
    /\ forwarded => DOMAIN w.sent \cap hopByHop(rsp0.Header) = {}


\* C15: every error response that the proxy makes itself (400 and 502)
\* has Content-Type text/plain; charset=utf-8, Cache-Control: no-cache,
\* no-store, must-revalidate, Pragma: no-cache and Expires: 0, and its
\* body is the error text followed by one newline.
C15_ErrorResponse ==
    xerr # "" =>
       /\ w.status \in {StatusBadRequest, StatusBadGateway}
       /\ {"Content-Type", "Cache-Control", "Pragma", "Expires"}
             \subseteq DOMAIN w.sent
       /\ w.sent["Content-Type"] = << <<"text/plain; charset=utf-8">> >>
       /\ w.sent["Cache-Control"]
             = << <<"no-cache", "no-store", "must-revalidate">> >>
       /\ w.sent["Pragma"] = << <<"no-cache">> >>
       /\ w.sent["Expires"] = << <<"0">> >>
       /\ w.body = <<xerr, "\n">>

\* A request that is neither an IPP request nor a GET was rejected.
C15_Witness ==
    /\ xpc = "done"
    /\ xerr = ErrBadRequest
    /\ w.status = StatusBadRequest

\* The elements of the sequence s.
Range(s) == {s[i] : i \in DOMAIN s}

\* C16: in the IPP pipeline a failure to decode the request message, a
\* failure of the upstream transport and a failure to decode the
\* response message each end the exchange with a 502 Bad Gateway that
\* carries the error text, and nothing of the status, the header and the
\* body of the upstream response is sent to the client.
C16_IPPFailures ==
    [][(xpc \in {"DecodeReq", "Do", "DecodeRsp"} /\ xpc' = "done") =>
          /\ xerr' \in {ErrIPP(ErrDecode), ErrTransport, ErrDecode}
          /\ xpc = "DecodeReq" <=> xerr' = ErrIPP(ErrDecode)
          /\ xpc = "DecodeRsp" <=> xerr' = ErrDecode
          /\ w'.status = StatusBadGateway
          /\ w'.status # rsp0'.StatusCode
          /\ xerr' \in Range(w'.body)
          /\ Range(w'.body) \cap Range(rsp0'.Body) = {}
          /\ \A k \in DOMAIN w'.sent :
                k \in DOMAIN rsp0'.Header => w'.sent[k] # rsp0'.Header[k]
          /\ DOMAIN w'.sent
                = {"Content-Type", "Cache-Control", "Pragma", "Expires"}
      ]_vars

\* The response of upstream, with a body, could not be decoded, and the
\* exchange has ended.
C16_Witness ==
    /\ xpc = "done"
    /\ rqnum >= 1
    /\ xerr = ErrDecode
    /\ rsp0.Body # <<>>
    /\ w.status = StatusBadGateway


\* p.clnt.Do(out) has returned a response in doIPP.
answered == rqnum >= 1 /\ rsp0.StatusCode # 0

\* C18: when tracing is active and the client sent N > 0 bytes after the
\* IPP message, a data record is emitted and holds exactly those N
\* bytes: when the record is built, the whole outgoing body, the
\* re-encoded message and the N bytes, has passed through sniffBuff.
C18_TrailingData ==
    (answered /\ xtracing /\ trailing # <<>>) =>
       /\ Len(sniffBuff) = xout.ipplen + Len(trailing)
       /\ \E i \in DOMAIN xtrace :
             xtrace[i].kind = "data" /\ xtrace[i].data = trailing

\* The proxy has answered the client.
replied == w.status # 0

\* C28: when the Content-Length of the incoming request is unknown and
\* the request cannot be forwarded with chunked framing, the proxy does
\* not forward the request and, unless it rejects the request for an
\* error, replies 411 Length Required.
C28_LengthRequired ==
    (xin.ContentLength = -1 /\ ~upstream11) =>
        /\ xpc # "Do"
        /\ (replied /\ xerr = "") => w.status = 411

\* C28, amended: a request whose Content-Length is unknown is handled as
\* any other.  It is forwarded with the outgoing Content-Length unknown,
\* whatever framing the forwarding leg takes, and the status the proxy
\* replies is the one of the upstream response or, with an error, 400 or
\* 502: never a 411 of its own.
C28_UnknownLengthForwarded ==
    xin.ContentLength = -1 =>
        /\ xpc = "Do" => xout.ContentLength = -1
        /\ replied =>
              \/ xerr = "" /\ w.status = rsp0.StatusCode
              \/ xerr # "" /\ w.status \in {StatusBadRequest, StatusBadGateway}

\* A request of unknown length was forwarded to a server that takes no
\* chunked framing, and the client has the status of the response.
C28_Witness ==
    /\ xin.ContentLength = -1 /\ ~upstream11
    /\ xpc = "done" /\ xerr = ""
    /\ xout.ContentLength = -1
    /\ replied /\ w.status = rsp0.StatusCode

\* The outgoing request before doHTTP or doIPPreq has made one.
noOut == [Header |-> NoHeader, ContentLength |-> 0, ipplen |-> 0]

\* C36: when the local URL cannot be made of the Host header or the IPP
\* message of the request cannot be decoded, the proxy replies 502 with
\* the error; no outgoing request was made, p.clnt.Do was not called, no
\* record went to the trace, and the request has its rqnum all the same.
C36_RequestFailure ==
    xerr \in {ErrLocalURL, ErrIPP(ErrDecode)} =>
       /\ xpc = "done"
       /\ w.status = StatusBadGateway
       /\ w.body = rejectBody(xerr)
       /\ xout = noOut
       /\ rsp0.StatusCode = 0
       /\ sniffBuff = <<>>
       /\ xtrace = <<>>
       /\ rqnum = 1

\* With tracing on, the decoder read from the body of the request and
\* failed; the proxy has replied.
C36_Witness ==
    /\ xerr = ErrIPP(ErrDecode)
    /\ xtracing
    /\ pos >= 1
    /\ w.status = StatusBadGateway

\* doIPP has the response of upstream, and it is not an IPP response.
plainResponse ==
    /\ answered
    /\ ToLower(hdrText(hdrGet(rsp0.Header, "Content-Type")))
          # "application/ipp"

\* C37: when the response to an IPP request has not the Content-Type
\* application/ipp, rsp.Body stays the body that p.clnt.Do returned, no
\* Peeker around it: the client gets its bytes as they are, all of them
\* when the exchange has ended; rsp.ContentLength stays what it was, and
\* the trace gets no record of the response.
C37_PlainResponse ==
    plainResponse =>
       /\ xpc \in {"WriteHeader", "Copy", "done"}
       /\ out = "tee" /\ anchor.op = "new" /\ buf = <<>>
       /\ rsp.ContentLength = rsp0.ContentLength
       /\ w.body = SubSeq(rsp0.Body, 1, inPos)
       /\ xpc = "done" => w.body = rsp0.Body
       /\ \A i \in DOMAIN xtrace : xtrace[i].kind # "response"

\* With tracing on, an IPP request was answered with a response that is
\* not IPP, of known length and with a body, and the client has it.
C37_Witness ==
    /\ plainResponse
    /\ xtracing
    /\ xpc = "done"
    /\ rsp0.ContentLength >= 1
    /\ w.body = rsp0.Body

\* C38: when p.clnt.Do has returned a response, in doHTTP or in doIPP,
\* its body is closed when the handler returns.
C38_BodyClosed ==
    (xpc = "done" /\ rsp0.StatusCode # 0) => inClosed

\* C39: ServeHTTP calls WriteHeader once on every path and has called it
\* when it returns.  After a rejection nothing more is written: the
\* status stays 400 or 502, the body the error text.  Nothing is written
\* to the client while p.clnt.Do runs or the IPP response is decoded;
\* what the client gets of an IPP response is the re-encoded message and
\* then what follows the message in the body of the response.
C39_StatusOnce ==
    /\ [](w.calls <= 1)
    /\ [](xpc = "done" => w.calls = 1 /\ replied)
    /\ [](xpc \in {"ServeHTTP", "doHTTP", "doIPP", "DecodeReq", "Do",
                   "DecodeRsp", "WriteHeader"}
             => (w.calls = 0 /\ ~replied /\ w.body = <<>>))
    /\ [](xerr # "" =>
             /\ xpc = "done"
             /\ w.status \in {StatusBadRequest, StatusBadGateway}
             /\ w.body = rejectBody(xerr))
    /\ []((forwarded /\ answered /\ isIPP(rsp0.Header)) =>
             /\ w.status = rsp0.StatusCode
             /\ anchor.op = "Replace"
             /\ IsPrefix(w.body,
                         anchor.data
                            \o SubSeq(rsp0.Body, anchor.at + 1,
                                      Len(rsp0.Body))))
    /\ [][w.status # 0 => w'.status = w.status /\ w'.sent = w.sent]_vars

\* The response to an IPP request, with the status 404, could not be
\* decoded: the client has a 502 and the error text.
C39_Witness ==
    /\ xpc = "done"
    /\ answered
    /\ rsp0.StatusCode = 404
    /\ rsp0.Body # <<>>
    /\ xerr = ErrDecode
    /\ w.calls = 1
    /\ w.status = StatusBadGateway

\* The children of root with that name.
childrenNamed(name) == {i \in DOMAIN root : root[i].Name = name}

\* C29: decodeScaling accepts an element only if ScalingWidth and
\* ScalingHeight are both present and are integers from 1 to 1000: the
\* Scaling it returns without an error has both values in that range,
\* and an element with one ScalingWidth and one ScalingHeight in that
\* range, 1 and 1000 included, is accepted.
C29_ScalingRange ==
    scPc = "decoded" =>
       /\ scErr = "nil" =>
             /\ childrenNamed("wscn:ScalingWidth") # {}
             /\ childrenNamed("wscn:ScalingHeight") # {}
             /\ sc.ScalingWidth \in 1..1000
             /\ sc.ScalingHeight \in 1..1000
       /\ ( /\ childrenNamed("wscn:ScalingWidth") # {}
            /\ childrenNamed("wscn:ScalingHeight") # {}
            /\ \A i \in DOMAIN root :
                  root[i].Name = "wscn:Other"
                     \/ (Atoi(root[i].Text).err = "nil"
                         /\ Atoi(root[i].Text).val \in 1..1000) )
              => scErr = "nil"

====
